---------------------------- MODULE Spec2Model ----------------------------
(***************************************************************************)
(* A model of iFetch's differential transfer engine:                       *)
(*   - FileChunker (src/ifetch/chunker.py): get_file_chunks and            *)
(*     find_changed_chunks, as operators, exercised by SpecChunk;          *)
(*   - DownloadManager.download_drive_item with VersionManager             *)
(*     (src/ifetch/downloader.py, src/ifetch/versioning.py), one step per  *)
(*     statement group, exercised by Spec;                                 *)
(*   - DownloadManager.process_item_parallel, the concurrent tree walk,    *)
(*     exercised by SpecWalk.                                              *)
(* Files are sequences of bytes; ZeroByte is the zero fill, OldByte the   *)
(* bytes of a file found on disk, NewByte the bytes the remote serves.     *)
(***************************************************************************)
EXTENDS Integers, Sequences, FiniteSets, TLC

VARIABLES
    \* ---- FileChunker (SpecChunk)
    cpc,                \* "init" | "chunked" | "diffed"
    chunk_size,         \* FileChunker.chunk_size
    cfile,              \* the local file handed to the chunker
    cremote,            \* the response's content-length
    cbody,              \* the response's body (response.raw)
    cchunks,            \* the result of get_file_chunks(cfile)
    existing_chunks,    \* the map handed to find_changed_chunks
    path_given,         \* whether local_path was passed (it is Optional)
    cranges,            \* the result of find_changed_chunks
    \* ---- the files and documents of one local target (Spec)
    remote,             \* the remote file's bytes
    local,              \* the file at local_path
    temp,               \* the staging file, local_path + ".temp"
    sidecar,            \* the tracker's status file: a position, or NoSidecar
    versions_dir,       \* the files moved under .versions
    vm_data,            \* VersionManager._data: key -> list of records
    meta_doc,           \* .ifetch_versions.json as last written
    \* ---- DownloadManager
    version_manager,    \* whether self.version_manager is set
    download_results,   \* self.download_results
    \* ---- one call of download_drive_item
    pc,                 \* the statement the call is at
    total_size,
    changed_ranges,
    temp_path,          \* whether temp_path is set (it starts as None)
    idx,                \* the range the fetch loop is at
    temp_checksum,
    err,                \* the exception being handled
    ret,                \* the call's return value: "none" until it returns
    \* ---- history, for the properties
    runs,               \* calls started
    local0,             \* the local file when the call started
    results0,           \* Len(download_results) when the call started
    fetches,            \* download_chunk calls of this call
    fetched_all,        \* every download_chunk so far returned its range
    any_failed,         \* some call of the session returned False
    exited,             \* how cli.main ended, once it has
    \* ---- process_item_parallel (SpecWalk)
    tree,               \* the remote tree being walked
    max_workers,        \* DownloadManager.max_workers
    tpc,                \* per call of process_item_parallel, where it is
    active_downloads,   \* DownloadManager._active_downloads
    skipped,            \* the calls that returned at the in-flight guard
    include_patterns,   \* DownloadManager.include_patterns
    exclude_patterns,   \* DownloadManager.exclude_patterns
    filtered,           \* the calls that returned at the pattern filter
    dispatched,         \* the plugin hooks dispatched so far
    vfiles,             \* VersionManager alone: the file at each path under root
    vcall,              \* the record_version call that just returned, if any
    vcalls,             \* how many record_version calls were made
    vdone,              \* per path, the checksums of the calls that archived
    vsaved,             \* whether every _save so far wrote the document
    kpc,                \* concurrent record_version calls: where each caller is
    kkey,               \* each caller's key
    kver,               \* each caller's version_nr
    kbuf,               \* what each caller's json.dump put in its file buffer
    kdata0,             \* the ledger before the callers began
    rfn,                \* retry loops alone: the routine that was called
    rmax,               \* its attempt budget (max_retries)
    rpc,                \* "loop", "returned" or "raised"
    retries,            \* download_chunk's retries
    attempt,            \* _open_with_retry's attempt
    issued,             \* requests.get / item.open calls made so far
    last_error,         \* last_error
    raised,             \* the error that propagated to the caller
    sleeps,             \* the time.sleep calls made, in order
    tbuilt,             \* DownloadTracker alone: the instances constructed
    current_position,   \* per instance, DownloadTracker.current_position
    texpect,            \* the position the calls so far have left to load
    tlast,              \* the tracker call that just returned, if any
    plugins,            \* PluginManager alone: self._plugins, in registration order
    dnext,              \* dispatch's place in the for loop
    dstate,             \* "loop", "returned" or "raised"
    invoked,            \* the plugins whose callback was called, in order
    owned_root,         \* get_drive_item alone: the paths under api.drive
    shared_root,        \* the paths under api.drive.shared, if there is one
    gpath,              \* the path argument, character by character
    gresult             \* what the call came to

cvars == <<cpc, chunk_size, cfile, cremote, cbody, cchunks, existing_chunks,
           path_given, cranges>>

fvars == <<remote, local, temp, sidecar, versions_dir, vm_data, meta_doc>>

dvars == <<version_manager, download_results>>

lvars == <<pc, total_size, changed_ranges, temp_path, idx, temp_checksum, err, ret>>

hvars == <<runs, local0, results0, fetches, fetched_all, any_failed, exited>>

evars == <<fvars, dvars, lvars, hvars>>

wvars == <<tree, max_workers, tpc, active_downloads, skipped,
           include_patterns, exclude_patterns, filtered, dispatched>>

kvars == <<kpc, kkey, kver, kbuf, kdata0>>

vvars == <<vfiles, vcall, vcalls, vdone, vsaved, kvars>>

\* The variables of the parts modelled on their own.
rvars == <<rfn, rmax, rpc, retries, attempt, issued, last_error, raised, sleeps>>

tvars == <<tbuilt, current_position, texpect, tlast>>

\* The variables of the smaller parts.
pvars == <<plugins, dnext, dstate, invoked>>

gvars == <<owned_root, shared_root, gpath, gresult>>

svars == <<tvars, pvars, gvars>>

ovars == <<vvars, rvars, svars>>

vars == <<cvars, evars, wvars, ovars>>

----------------------------------------------------------------------------
(* Bounds *)

\* Longest file, in bytes.
MaxSize == 3

\* Largest chunk size tried by SpecChunk.
MaxChunk == 2

\* Calls of download_drive_item in one behaviour.
MaxRuns == 2

\* Largest max_workers tried by SpecWalk.
MaxWorkers == 2

\* Largest max_retries tried by SpecRetry.
MaxRetries == 3

\* Most requests download_chunk is followed for by SpecRetry.
MaxRequests == 5

\* Longest path, in characters, get_drive_item is called with in SpecDrive.
MaxPathLen == 3

\* Most plugins registered in SpecDispatch.
MaxPlugins == 3

\* Most record_version calls made by SpecVersion.
MaxCalls == 3

ZeroByte == "z"
OldByte == "o"
NewByte == "n"

Min(a, b) == IF a < b THEN a ELSE b

\* All byte strings of length at most n over the alphabet bs.
BytesUpTo(bs, n) == UNION {[1..k -> bs] : k \in 0..n}

\* A file on disk: present or not, and its bytes.
NoFile == [ex |-> FALSE, data |-> <<>>]
File(d) == [ex |-> TRUE, data |-> d]

\* Path.exists() and Path.stat().st_size
Exists(f) == f.ex
StSize(f) == Len(f.data)

----------------------------------------------------------------------------
(* FileChunker *)

\* hashlib.md5(chunk_data).hexdigest(): a digest of the chunk's bytes,
\* taken to be collision-free.
md5(chunk_data) == <<"md5", chunk_data>>

\* chunks[chunk_hash] = (position, position + chunk_size - 1): a dict
\* assignment, which overwrites the entry of an equal key.
DictPut(d, k, v) == [h \in DOMAIN d \cup {k} |-> IF h = k THEN v ELSE d[h]]

EmptyDict == [h \in {} |-> <<0, 0>>]

\* The read loop of get_file_chunks.
RECURSIVE chunk_loop(_, _, _, _)
chunk_loop(data, cs, position, chunks) ==
    LET chunk_data == SubSeq(data, position + 1, Min(position + cs, Len(data)))
        n == Len(chunk_data)
    IN  IF n = 0
        THEN chunks
        ELSE chunk_loop(data, cs, position + n,
                        DictPut(chunks, md5(chunk_data),
                                <<position, position + n - 1>>))

get_file_chunks(cs, file_path) ==
    IF ~Exists(file_path) \/ StSize(file_path) = 0
    THEN EmptyDict
    ELSE chunk_loop(file_path.data, cs, 0, EmptyDict)

\* A plausible slip: the emptiness test of the chunk map placed after the
\* size comparison.
find_changed_chunks_size_first(content_length, existing, given, local_path) ==
    IF content_length = 0 THEN <<>>
    ELSE IF given /\ Exists(local_path) /\ StSize(local_path) = content_length
    THEN <<>>
    ELSE <<<<0, content_length - 1>>>>

\* A plausible slip: the size comparison dropped (always refetch).
find_changed_chunks_no_compare(content_length, existing, given, local_path) ==
    IF content_length = 0 THEN <<>>
    ELSE <<<<0, content_length - 1>>>>

\* A plausible slip: >= for == in the size comparison.
find_changed_chunks_ge(content_length, existing, given, local_path) ==
    IF content_length = 0 THEN <<>>
    ELSE IF DOMAIN existing = {} THEN <<<<0, content_length - 1>>>>
    ELSE IF given /\ Exists(local_path) /\ StSize(local_path) >= content_length
    THEN <<>>
    ELSE <<<<0, content_length - 1>>>>

\* A plausible slip: the file compared by size even when no local_path was
\* passed.
find_changed_chunks_path_ignored(content_length, existing, given, local_path) ==
    IF content_length = 0 THEN <<>>
    ELSE IF DOMAIN existing = {} THEN <<<<0, content_length - 1>>>>
    ELSE IF Exists(local_path) /\ StSize(local_path) = content_length
    THEN <<>>
    ELSE <<<<0, content_length - 1>>>>

\* find_changed_chunks(response, existing_chunks, local_path); content_length
\* is the response's header (total_size in the source), given says whether local_path was
\* passed.
find_changed_chunks(content_length, existing, given, local_path) ==
    IF content_length = 0 THEN <<>>
    ELSE IF DOMAIN existing = {} THEN <<<<0, content_length - 1>>>>
    ELSE IF given /\ Exists(local_path) /\ StSize(local_path) = content_length
    THEN <<>>
    ELSE <<<<0, content_length - 1>>>>

\* The files the chunker is tried on.
ChunkFiles == {NoFile} \cup {File(d) : d \in BytesUpTo({OldByte, NewByte}, MaxSize)}

CInit ==
    /\ cpc = "init"
    /\ chunk_size \in 1..MaxChunk
    /\ cfile \in ChunkFiles
    /\ cbody \in BytesUpTo({OldByte, NewByte}, MaxSize)
    /\ cremote = Len(cbody)
    /\ cchunks = EmptyDict
    /\ existing_chunks = EmptyDict
    /\ path_given = FALSE
    /\ cranges = <<>>

\* chunks = chunker.get_file_chunks(file_path)
GetFileChunks ==
    /\ cpc = "init"
    /\ cchunks' = get_file_chunks(chunk_size, cfile)
    /\ cpc' = "chunked"
    /\ UNCHANGED <<chunk_size, cfile, cremote, cbody, existing_chunks, path_given, cranges>>
    /\ UNCHANGED <<evars, wvars, ovars>>

\* ranges = chunker.find_changed_chunks(response, existing, local_path):
\* callers pass the map of the local file (downloader.py:230-231), an empty
\* map (test_chunker.py:70) or the map of some other content.
FindChangedChunks ==
    /\ cpc = "chunked"
    /\ \E m \in {cchunks, EmptyDict} \cup
               {get_file_chunks(chunk_size, f) : f \in ChunkFiles},
          g \in BOOLEAN :
            /\ existing_chunks' = m
            /\ path_given' = g
            /\ cranges' = find_changed_chunks(cremote, m, g, cfile)
    /\ cpc' = "diffed"
    /\ UNCHANGED <<chunk_size, cfile, cremote, cbody, cchunks>>
    /\ UNCHANGED <<evars, wvars, ovars>>

CNext == GetFileChunks \/ FindChangedChunks

----------------------------------------------------------------------------
(* VersionManager *)

\* The relative path of the one target the engine is run on, as a ledger key.
Key == "a.txt"

\* The relative paths a ledger is asked about.
RelPaths == {Key, "b.txt"}

\* self._data = {}: no path has a version.
EmptyLedger == [k \in RelPaths |-> <<>>]

\* latest_checksum's answer for a path without versions.
None == <<"None">>

NoSidecar == -1

\* DownloadManager.calculate_checksum: the SHA-256 of the file's bytes, taken
\* to be collision-free.
calculate_checksum(f) == <<"sha256", f.data>>

\* checksum="" of a failed DownloadStatus
NoChecksum == <<>>

\* The attributes VersionManager.__init__ sets on the instance.
VersionManagerAttrs == {"root", "meta_path", "versions_dir", "_data"}

\* A plausible slip: the new number taken to be the newest one's.
next_version_same(existing) ==
    IF Len(existing) > 0 THEN existing[Len(existing)].version ELSE 1

\* version_nr = (existing[-1]["version"] + 1) if existing else 1
next_version(existing) ==
    IF Len(existing) > 0 THEN existing[Len(existing)].version + 1 ELSE 1

\* What shutil.move(src_file, dest) leaves at src_file.
record_version_source(src_file) == NoFile

\* .ifetch_versions.json: not there, holding a JSON document, or cut short
\* by a write that failed.
NoMeta == [kind |-> "absent"]

PartialMeta == [kind |-> "partial"]

\* json.dump(self._data, fp)
json_dump(ledger) == [kind |-> "json", ledger |-> ledger]

\* How _save can end: the document written; open("w") raising OSError, the
\* file as it was; the write raising OSError after open truncated the file.
SaveOutcomes == {"written", "open_failed", "write_failed"}

\* _save: the document after it; OSError is swallowed.
_save(ledger, doc, outcome) ==
    CASE outcome = "written" -> json_dump(ledger)
      [] outcome = "open_failed" -> doc
      [] OTHER -> PartialMeta

\* _load: the ledger a new VersionManager starts with; a missing file or a
\* JSONDecodeError gives {}.
_load(doc) == IF doc.kind = "json" THEN doc.ledger ELSE EmptyLedger

\* A plausible slip: the newest checksum taken from the front of the list.
latest_checksum_first(ledger, key) ==
    IF Len(ledger[key]) > 0 THEN ledger[key][1].checksum ELSE None

\* latest_checksum(rel_path)
latest_checksum(ledger, key) ==
    IF Len(ledger[key]) > 0 THEN ledger[key][Len(ledger[key])].checksum ELSE None

\* How record_version can end: the file moved; shutil.move raising
\* shutil.Error or OSError; dest.parent.mkdir raising OSError before the try.
RecordOutcomes == {"moved", "move_failed", "mkdir_raised"}

\* A plausible slip: the record appended before the move is tried.
record_version_append_first(ledger, doc, vdir, key, checksum, src, how, save) ==
    LET existing == ledger[key]
        version_nr == next_version(existing)
        rec == [version |-> version_nr, checksum |-> checksum,
                archived |-> <<key, version_nr>>]
        data2 == [ledger EXCEPT ![key] = Append(existing, rec)]
    IN  IF how = "moved"
        THEN [src |-> record_version_source(src),
              vdir |-> vdir \cup {[dest |-> <<key, version_nr>>, data |-> src.data]},
              ledger |-> data2,
              doc |-> _save(data2, doc, save),
              raised |-> FALSE]
        ELSE [src |-> src, vdir |-> vdir, ledger |-> data2, doc |-> doc,
              raised |-> (how = "mkdir_raised")]

\* record_version(rel_path, checksum, src_file) on a manager holding ledger,
\* with document doc and archive vdir: what it leaves, and whether it raised.
record_version(ledger, doc, vdir, key, checksum, src, how, save) ==
    LET existing == ledger[key]
        version_nr == next_version(existing)
        rec == [version |-> version_nr, checksum |-> checksum,
                archived |-> <<key, version_nr>>]
        data2 == [ledger EXCEPT ![key] = Append(existing, rec)]
    IN  IF how = "moved"
        THEN [src |-> record_version_source(src),
              vdir |-> vdir \cup {[dest |-> <<key, version_nr>>, data |-> src.data]},
              ledger |-> data2,
              doc |-> _save(data2, doc, save),
              raised |-> FALSE]
        ELSE [src |-> src, vdir |-> vdir, ledger |-> ledger, doc |-> doc,
              raised |-> (how = "mkdir_raised")]

----------------------------------------------------------------------------
(* DownloadManager.download_drive_item *)

Zeros(n) == [i \in 1..n |-> ZeroByte]

\* out_file.seek(start); out_file.write(chunk) on a file opened "r+b": the
\* bytes at start.. are overwritten, the file grows when the write ends
\* past its end, and a gap is zero-filled.
WriteAt(data, start, chunk) ==
    LET n == IF Len(chunk) = 0 THEN Len(data)
             ELSE IF start + Len(chunk) > Len(data) THEN start + Len(chunk)
             ELSE Len(data)
    IN  [i \in 1..n |->
            IF i > start /\ i <= start + Len(chunk) THEN chunk[i - start]
            ELSE IF i <= Len(data) THEN data[i]
            ELSE ZeroByte]

\* The bytes a 200/206 response to Range: bytes=start-end carries.
RangeOf(data, start, end) == SubSeq(data, start + 1, Min(end + 1, Len(data)))

DownloadStatus(size, downloaded, checksum, status, changes, error) ==
    [path |-> Key, size |-> size, downloaded |-> downloaded,
     checksum |-> checksum, status |-> status, changes |-> changes,
     error |-> error]

RECURSIVE SumRanges(_)
SumRanges(rs) ==
    IF rs = <<>> THEN 0
    ELSE (rs[1][2] - rs[1][1] + 1) + SumRanges(Tail(rs))

\* Lines 214-225: a call starts. An item without name or open is refused.
Begin ==
    /\ pc \in {"idle", "returned"}
    /\ runs < MaxRuns
    /\ runs' = runs + 1
    /\ local0' = local
    /\ results0' = Len(download_results)
    /\ fetches' = 0
    /\ fetched_all' = TRUE
    /\ total_size' = 0
    /\ temp_path' = FALSE
    /\ changed_ranges' = <<>>
    /\ idx' = 1
    /\ temp_checksum' = NoChecksum
    /\ err' = ""
    /\ \E valid \in BOOLEAN :
          IF valid THEN pc' = "open" /\ ret' = "none" /\ any_failed' = any_failed
          ELSE pc' = "returned" /\ ret' = "false" /\ any_failed' = TRUE
    /\ UNCHANGED <<fvars, dvars, cvars, ovars, wvars, exited>>

\* Line 228-229: _open_with_retry returns the response, or raises.
Open ==
    /\ pc = "open"
    /\ \E ok \in BOOLEAN :
          IF ok
          THEN /\ total_size' = Len(remote)
               /\ pc' = "diff"
               /\ err' = err
          ELSE /\ pc' = "except"
               /\ err' = "open"
               /\ total_size' = total_size
    /\ UNCHANGED <<fvars, dvars, hvars, cvars, ovars, wvars>>
    /\ UNCHANGED <<changed_ranges, temp_path, idx, temp_checksum, ret>>

\* Lines 230-242: the chunk map of the local file, the changed ranges, and
\* the return when there are none.
Diff ==
    /\ pc = "diff"
    /\ LET existing == get_file_chunks(chunk_size, local)
           ranges == find_changed_chunks(total_size, existing, TRUE, local)
       IN  /\ changed_ranges' = ranges
           /\ IF ranges = <<>>
              THEN pc' = "returned" /\ ret' = "true" /\ temp_path' = temp_path
              ELSE pc' = "backup" /\ ret' = ret /\ temp_path' = TRUE
    /\ UNCHANGED <<fvars, dvars, hvars, cvars, ovars, wvars>>
    /\ UNCHANGED <<total_size, idx, temp_checksum, err>>

\* A plausible slip: what record_version raises ends the transfer.
after_backup_fatal(failed) == IF failed THEN "except" ELSE "stage"

\* Lines 250-251: "except Exception: pass", the download goes on.
after_backup(failed) == "stage"

\* Lines 244-251: the previous file is handed to the version manager; what
\* it raises is swallowed.
Backup ==
    /\ pc = "backup"
    /\ IF Exists(local) /\ version_manager
       THEN \E how \in RecordOutcomes, save \in SaveOutcomes :
               LET r == record_version(vm_data, meta_doc, versions_dir, Key,
                                       calculate_checksum(local), local, how, save)
               IN  /\ local' = r.src
                   /\ versions_dir' = r.vdir
                   /\ vm_data' = r.ledger
                   /\ meta_doc' = r.doc
                   /\ pc' = after_backup(r.raised)
       ELSE /\ UNCHANGED <<local, versions_dir, vm_data, meta_doc>>
            /\ pc' = "stage"
    /\ UNCHANGED <<remote, temp, sidecar, dvars, hvars, cvars, ovars, wvars>>
    /\ UNCHANGED <<total_size, changed_ranges, temp_path, idx, temp_checksum, err, ret>>

\* Lines 253-262: the staging file, a copy of the local file or total_size
\* zero bytes; mkdir, copy2 and open may raise OSError.
Stage ==
    /\ pc = "stage"
    /\ \E ok \in BOOLEAN :
          IF ok
          THEN /\ temp' = IF Exists(local) THEN File(local.data)
                          ELSE File(Zeros(total_size))
               /\ pc' = "fetch"
               /\ err' = err
          ELSE /\ temp' = temp
               /\ pc' = "except"
               /\ err' = "oserror"
    /\ idx' = 1
    /\ UNCHANGED <<remote, local, sidecar, versions_dir, vm_data, meta_doc>>
    /\ UNCHANGED <<dvars, hvars, cvars, ovars, wvars>>
    /\ UNCHANGED <<total_size, changed_ranges, temp_path, temp_checksum, ret>>

\* A plausible slip: the checkpoint set to the range's first byte.
save_status_position_start(start, end) == start

\* Line 276: tracker.save_status(end + 1)
save_status_position(start, end) == end + 1

\* Lines 271-286: one turn of the fetch loop. download_chunk returns the
\* range's bytes, returns a 200/206 response with an empty body, or raises
\* after its retries.
Fetch ==
    /\ pc = "fetch"
    /\ idx <= Len(changed_ranges)
    /\ LET start == changed_ranges[idx][1]
           end == changed_ranges[idx][2]
       IN  \E outcome \in {"bytes", "empty", "raise"} :
              IF outcome = "raise"
              THEN /\ pc' = "except"
                   /\ err' = "download_chunk"
                   /\ fetched_all' = FALSE
                   /\ UNCHANGED <<temp, sidecar, idx>>
              ELSE LET chunk == IF outcome = "bytes"
                                THEN RangeOf(remote, start, end) ELSE <<>>
                   IN  /\ temp' = File(WriteAt(temp.data, start, chunk))
                       /\ sidecar' = save_status_position(start, end)
                       /\ idx' = idx + 1
                       /\ fetched_all' = (fetched_all /\ outcome = "bytes")
                       /\ pc' = pc
                       /\ err' = err
    /\ fetches' = fetches + 1
    /\ UNCHANGED <<remote, local, versions_dir, vm_data, meta_doc>>
    /\ UNCHANGED <<dvars, cvars, ovars, wvars, runs, local0, results0, any_failed, exited>>
    /\ UNCHANGED <<total_size, changed_ranges, temp_path, temp_checksum, ret>>

\* Lines 288-298: the staging file is checked and moved over the local
\* file; an empty or missing one is logged and the call returns False.
Verify ==
    /\ pc = "fetch"
    /\ idx > Len(changed_ranges)
    /\ IF Exists(temp) /\ StSize(temp) > 0
       THEN /\ temp_checksum' = calculate_checksum(temp)
            /\ local' = File(temp.data)
            /\ temp' = NoFile
            /\ pc' = "commit"
            /\ ret' = ret
            /\ any_failed' = any_failed
       ELSE /\ pc' = "returned"
            /\ ret' = "false"
            /\ any_failed' = TRUE
            /\ UNCHANGED <<temp_checksum, local, temp>>
    /\ UNCHANGED <<remote, sidecar, versions_dir, vm_data, meta_doc>>
    /\ UNCHANGED <<dvars, cvars, ovars, wvars>>
    /\ UNCHANGED <<runs, local0, results0, fetches, fetched_all, exited>>
    /\ UNCHANGED <<total_size, changed_ranges, temp_path, idx, err>>

\* Lines 300-308: the completed record and the tracker's cleanup.
Commit ==
    /\ pc = "commit"
    /\ download_results' = Append(download_results,
          DownloadStatus(total_size, SumRanges(changed_ranges), temp_checksum,
                         "completed", Len(changed_ranges), ""))
    /\ sidecar' = NoSidecar
    /\ pc' = "versions"
    /\ UNCHANGED <<remote, local, temp, versions_dir, vm_data, meta_doc>>
    /\ UNCHANGED <<version_manager, hvars, cvars, ovars, wvars>>
    /\ UNCHANGED <<total_size, changed_ranges, temp_path, idx, temp_checksum, err, ret>>

\* "with self.version_manager._lock:" looks the attribute up on the instance.
HasLock == "_lock" \in VersionManagerAttrs

\* Lines 309-331: the baseline entry of a path the ledger does not know,
\* written under version_manager._lock, then _save and the return.
UpdateVersions ==
    /\ pc = "versions"
    /\ IF version_manager /\ ~HasLock
       THEN /\ pc' = "except"
            /\ err' = "AttributeError: _lock"
            /\ UNCHANGED <<vm_data, meta_doc, ret>>
       ELSE /\ pc' = "returned"
            /\ ret' = "true"
            /\ err' = err
            /\ IF version_manager
               THEN \E save \in SaveOutcomes :
                      LET data2 ==
                            IF Len(vm_data[Key]) = 0
                            THEN [vm_data EXCEPT ![Key] =
                                    <<[version |-> 0, checksum |-> temp_checksum,
                                       archived |-> <<Key>>]>>]
                            ELSE vm_data
                      IN  /\ vm_data' = data2
                          /\ meta_doc' = _save(data2, meta_doc, save)
               ELSE UNCHANGED <<vm_data, meta_doc>>
    /\ UNCHANGED <<remote, local, temp, sidecar, versions_dir>>
    /\ UNCHANGED <<dvars, hvars, cvars, ovars, wvars>>
    /\ UNCHANGED <<total_size, changed_ranges, temp_path, idx, temp_checksum>>

\* Lines 333-357: the handler of any exception raised in the try block.
Except ==
    /\ pc = "except"
    /\ temp' = IF temp_path /\ Exists(temp) THEN NoFile ELSE temp
    /\ download_results' = Append(download_results,
          DownloadStatus(total_size, 0, NoChecksum, "failed", 0, err))
    /\ pc' = "returned"
    /\ ret' = "false"
    /\ any_failed' = TRUE
    /\ UNCHANGED <<remote, local, sidecar, versions_dir, vm_data, meta_doc>>
    /\ UNCHANGED <<version_manager, cvars, ovars, wvars>>
    /\ UNCHANGED <<runs, local0, results0, fetches, fetched_all, exited>>
    /\ UNCHANGED <<total_size, changed_ranges, temp_path, idx, temp_checksum, err>>

\* cli.main has not ended.
NoExit == [by |-> "", status |-> -1]

\* How the body of cli.main's try block can end: it runs to its end, or
\* KeyboardInterrupt or another Exception leaves it.
MainEnds == {"returned", "KeyboardInterrupt", "Exception"}

\* cli.py lines 154-161: the process's exit status.
main_exit(by) ==
    IF by = "KeyboardInterrupt" THEN 130
    ELSE IF by = "Exception" THEN 1
    ELSE 0

\* cli.py lines 133-161: download() has processed the tree, main prints
\* the summary and the process ends.
Main ==
    /\ pc \in {"idle", "returned"}
    /\ \E by \in MainEnds :
          exited' = [by |-> by, status |-> main_exit(by)]
    /\ pc' = "exited"
    /\ UNCHANGED <<fvars, dvars, cvars, ovars, wvars>>
    /\ UNCHANGED <<total_size, changed_ranges, temp_path, idx, temp_checksum, err, ret>>
    /\ UNCHANGED <<runs, local0, results0, fetches, fetched_all, any_failed>>

\* The local files a call may find: none, or one of OldByte bytes.
LocalFiles == {NoFile} \cup {File([i \in 1..k |-> OldByte]) : k \in 0..MaxSize}

EInit ==
    /\ remote \in {[i \in 1..k |-> NewByte] : k \in 0..MaxSize}
    /\ local \in LocalFiles
    /\ temp = NoFile
    /\ sidecar = NoSidecar
    /\ versions_dir = {}
    /\ vm_data = EmptyLedger
    /\ meta_doc = NoMeta
    /\ version_manager \in BOOLEAN
    /\ download_results = <<>>
    /\ pc = "idle"
    /\ total_size = 0
    /\ changed_ranges = <<>>
    /\ temp_path = FALSE
    /\ idx = 1
    /\ temp_checksum = NoChecksum
    /\ err = ""
    /\ ret = "none"
    /\ runs = 0
    /\ local0 = NoFile
    /\ results0 = 0
    /\ fetches = 0
    /\ fetched_all = TRUE
    /\ any_failed = FALSE
    /\ exited = NoExit

\* The chunker's variables while the engine runs.
CIdle ==
    /\ cpc = "init"
    /\ chunk_size = MaxChunk
    /\ cfile = NoFile
    /\ cremote = 0
    /\ cbody = <<>>
    /\ cchunks = EmptyDict
    /\ existing_chunks = EmptyDict
    /\ path_given = FALSE
    /\ cranges = <<>>

\* The target's files while another part of the model runs.
FIdle ==
    /\ remote = <<>>
    /\ local = NoFile
    /\ temp = NoFile
    /\ sidecar = NoSidecar
    /\ versions_dir = {}
    /\ vm_data = EmptyLedger
    /\ meta_doc = NoMeta

\* download_drive_item's own variables while no call of it is modelled.
LIdle ==
    /\ pc = "idle"
    /\ total_size = 0
    /\ changed_ranges = <<>>
    /\ temp_path = FALSE
    /\ idx = 1
    /\ temp_checksum = NoChecksum
    /\ err = ""
    /\ ret = "none"
    /\ runs = 0
    /\ local0 = NoFile
    /\ results0 = 0
    /\ fetches = 0
    /\ fetched_all = TRUE
    /\ any_failed = FALSE
    /\ exited = NoExit

DIdle ==
    /\ version_manager = FALSE
    /\ download_results = <<>>

EIdle == FIdle /\ LIdle /\ DIdle

----------------------------------------------------------------------------
(* DownloadManager.process_item_parallel *)

\* A remote tree: node 1 is the item download() resolves; parent[i] is
\* the directory whose listing names node i (0 for node 1), in listing
\* order; name[i] is the listed name, one character long. A listing may
\* name a child twice.
TreeDup ==
    [parent |-> <<0, 1, 1, 1>>,
     kind |-> <<"dir", "file", "file", "file">>,
     name |-> <<"", "a", "a", "b">>]

TreeNested ==
    [parent |-> <<0, 1, 1, 2, 2, 3, 3>>,
     kind |-> <<"dir", "dir", "dir", "file", "file", "file", "file">>,
     name |-> <<"", "A", "D", "x", "y", "x", "y">>]

TreeDeep ==
    [parent |-> <<0, 1, 1, 2, 2>>,
     kind |-> <<"dir", "dir", "file", "file", "file">>,
     name |-> <<"", "A", "z", "x", "x">>]

TreeFile ==
    [parent |-> <<0>>, kind |-> <<"file">>, name |-> <<"">>]

\* Directories three deep.
TreeChain ==
    [parent |-> <<0, 1, 2, 3, 2>>,
     kind |-> <<"dir", "dir", "dir", "file", "file">>,
     name |-> <<"", "A", "D", "x", "y">>]

Trees == {TreeDup, TreeNested, TreeDeep, TreeFile, TreeChain}

Nodes == DOMAIN tree.parent

Children(i) == {j \in Nodes : tree.parent[j] = i}

\* local_path / name, from the walk's root down.
RECURSIVE LocalPath(_)
LocalPath(i) ==
    IF tree.parent[i] = 0 THEN <<>>
    ELSE Append(LocalPath(tree.parent[i]), tree.name[i])

\* can_read_file(item)
IsFile(i) == tree.kind[i] = "file"

\* local_path.relative_to(self.root_path).as_posix(), character by
\* character: "." for the walk's root, the names joined by "/" below it.
RECURSIVE PosixPath(_)
PosixPath(i) ==
    IF tree.parent[i] = 0 THEN <<".">>
    ELSE IF tree.parent[tree.parent[i]] = 0 THEN <<tree.name[i]>>
    ELSE PosixPath(tree.parent[i]) \o <<"/", tree.name[i]>>

\* fnmatch(name, pat) for patterns of literal characters, "?" and "*":
\* "?" matches any one character and "*" any run of characters, "/"
\* included.
RECURSIVE fnmatch(_, _)
fnmatch(name, pat) ==
    IF pat = <<>> THEN name = <<>>
    ELSE IF Head(pat) = "*"
    THEN fnmatch(name, Tail(pat)) \/ (name # <<>> /\ fnmatch(Tail(name), pat))
    ELSE /\ name # <<>>
         /\ Head(pat) = "?" \/ Head(pat) = Head(name)
         /\ fnmatch(Tail(name), Tail(pat))

\* A plausible slip: the include list consulted before the exclude list.
_should_process_include_first(path_str, include, exclude) ==
    IF \E n \in DOMAIN include : fnmatch(path_str, include[n]) THEN TRUE
    ELSE IF \E n \in DOMAIN exclude : fnmatch(path_str, exclude[n]) THEN FALSE
    ELSE include = <<>>

\* _should_process(rel_path, is_dir)
_should_process(path_str, include, exclude) ==
    IF \E n \in DOMAIN exclude : fnmatch(path_str, exclude[n]) THEN FALSE
    ELSE IF include = <<>> THEN TRUE
    ELSE \E n \in DOMAIN include : fnmatch(path_str, include[n])

\* The include and exclude lists the walk is tried with.
PatternConfigs ==
    {[include |-> <<>>, exclude |-> <<>>],
     [include |-> <<>>, exclude |-> <<<<"A", "/", "*">>>>],
     [include |-> <<<<"*">>>>, exclude |-> <<<<"*", "y">>>>],
     [include |-> <<<<"?">>, <<"*", "x">>>>, exclude |-> <<<<"D">>>>],
     [include |-> <<<<"*", "x">>>>, exclude |-> <<>>]}

\* One dispatch of a plugin hook.
Hook(hook, i, success) == [hook |-> hook, item |-> i, success |-> success]

\* Lines 363-367: the call returns at once when the patterns leave its
\* path out.
Filter(i) ==
    /\ tpc[i] = "run"
    /\ ~_should_process(PosixPath(i), include_patterns, exclude_patterns)
    /\ tpc' = [tpc EXCEPT ![i] = "done"]
    /\ filtered' = filtered \cup {i}
    /\ UNCHANGED <<tree, max_workers, active_downloads, skipped,
                   include_patterns, exclude_patterns, dispatched>>
    /\ UNCHANGED <<cvars, ovars, evars>>

\* A plausible slip: the in-flight guard left out.
already_active_unchecked(local_path_str) == FALSE

\* Line 372: local_path_str in self._active_downloads
already_active(local_path_str) == local_path_str \in active_downloads

\* A plausible slip: a worker never handed back once its call has ended.
Occupies_never_released(j) ==
    tpc[j] \in {"run", "xfer", "fin", "exc", "wait", "done"}

\* A worker thread of the executor of directory d is running child j.
Occupies(j) == tpc[j] \in {"run", "xfer", "fin", "exc", "wait"}

\* A plausible slip: only the engine's errors caught.
caught_engine_only(where) == where = "engine"

\* Lines 362 and 431: the whole body is inside try ... except Exception,
\* wherever in it the error arose.
caught(where) == TRUE

\* How a call that met an error ends: it returns after logging, or the
\* error leaves it.
ended(where) == IF caught(where) THEN "done" ELSE "raised"

\* A plausible slip: one executor shared by every level of the walk.
executor_shared(j) == Nodes \ {1}

\* Line 406: each directory's call makes an executor of its own, to which
\* it submits its children; the calls that compete with call j for a worker.
executor(j) == Children(tree.parent[j])

\* ThreadPoolExecutor(max_workers): a queued call starts when its
\* executor has a free worker, in submission order.
StartChild(j) ==
    /\ tpc[j] = "queued"
    /\ Cardinality({k \in executor(j) : Occupies(k)}) < max_workers
    /\ \A k \in executor(j) : k < j => tpc[k] # "queued"
    /\ tpc' = [tpc EXCEPT ![j] = "run"]
    /\ UNCHANGED <<tree, max_workers, active_downloads, skipped>>
    /\ UNCHANGED <<include_patterns, exclude_patterns, filtered, dispatched>>
    /\ UNCHANGED <<cvars, ovars, evars>>

\* Lines 369-374: under _download_lock, return when the path is in flight,
\* register it otherwise.
Register(i) ==
    /\ tpc[i] = "run"
    /\ _should_process(PosixPath(i), include_patterns, exclude_patterns)
    /\ IsFile(i)
    /\ IF already_active(LocalPath(i))
       THEN /\ tpc' = [tpc EXCEPT ![i] = "done"]
            /\ skipped' = skipped \cup {i}
            /\ UNCHANGED active_downloads
       ELSE /\ tpc' = [tpc EXCEPT ![i] = "xfer"]
            /\ active_downloads' = active_downloads \cup {LocalPath(i)}
            /\ UNCHANGED skipped
    /\ UNCHANGED <<tree, max_workers>>
    /\ UNCHANGED <<include_patterns, exclude_patterns, filtered, dispatched>>
    /\ UNCHANGED <<cvars, ovars, evars>>

\* What one call of download_drive_item leaves in download_results, by
\* the way it ends (see Spec): no change found, committed, an exception
\* handled, the staging file refused, or an exception raised outside its
\* try block (DownloadTracker(local_path) at line 223) and propagated.
TransferRecords(i, how) ==
    LET rec(status) == [path |-> LocalPath(i), status |-> status]
    IN  CASE how = "unchanged" -> <<>>
          [] how = "committed" ->
                IF version_manager /\ ~HasLock
                THEN <<rec("completed"), rec("failed")>>
                ELSE <<rec("completed")>>
          [] how = "raised" -> <<rec("failed")>>
          [] how = "refused" -> <<>>
          [] how = "propagated" -> <<>>

\* The hooks one call of download_drive_item dispatches, by the way it
\* ends: after_download(success=True) at lines 325-330 alone, which the
\* call reaches when it commits and the ledger update does not raise.
TransferDispatches(i, how) ==
    IF how = "committed" /\ ~(version_manager /\ ~HasLock)
    THEN {Hook("after_download", i, "True")}
    ELSE {}

\* Lines 376-392: before_download, then download_drive_item runs to its end.
Transfer(i) ==
    /\ tpc[i] = "xfer"
    /\ \E how \in {"unchanged", "committed", "raised", "refused", "propagated"} :
          /\ download_results' = download_results \o TransferRecords(i, how)
          /\ dispatched' = dispatched \cup {Hook("before_download", i, "")}
                                      \cup TransferDispatches(i, how)
          /\ tpc' = [tpc EXCEPT ![i] = IF how = "propagated" THEN "exc" ELSE "fin"]
    /\ UNCHANGED <<tree, max_workers, active_downloads, skipped>>
    /\ UNCHANGED <<include_patterns, exclude_patterns, filtered>>
    /\ UNCHANGED <<cvars, ovars, fvars, lvars, hvars, version_manager>>

\* A plausible slip: the path left registered.
unregister_kept(active, local_path_str) == active

\* Line 395: self._active_downloads.remove(local_path_str)
unregister(active, local_path_str) == active \ {local_path_str}

\* Lines 393-395: finally, under _download_lock, the path is unregistered,
\* however download_drive_item ended; an exception on its way goes on to
\* the handler of line 431.
Unregister(i) ==
    /\ tpc[i] \in {"fin", "exc"}
    /\ active_downloads' = unregister(active_downloads, LocalPath(i))
    /\ tpc' = [tpc EXCEPT ![i] = IF tpc[i] = "exc" THEN ended("engine") ELSE "done"]
    /\ UNCHANGED <<tree, max_workers, skipped>>
    /\ UNCHANGED <<include_patterns, exclude_patterns, filtered, dispatched>>
    /\ UNCHANGED <<cvars, ovars, evars>>

\* Lines 397-410: the directory is listed, its children resolved, and each
\* submitted to a new executor; a listing that raises ends the call in the
\* handler of line 431.
ListDir(i) ==
    /\ tpc[i] = "run"
    /\ _should_process(PosixPath(i), include_patterns, exclude_patterns)
    /\ ~IsFile(i)
    /\ \E ok \in BOOLEAN :
          IF ok
          THEN IF Children(i) # {}
               THEN tpc' = [j \in Nodes |->
                               IF j \in Children(i) THEN "queued"
                               ELSE IF j = i THEN "wait" ELSE tpc[j]]
               ELSE tpc' = [tpc EXCEPT ![i] = "done"]
          ELSE tpc' = [tpc EXCEPT ![i] = ended("listing")]
    /\ UNCHANGED <<tree, max_workers, active_downloads, skipped>>
    /\ UNCHANGED <<include_patterns, exclude_patterns, filtered, dispatched>>
    /\ UNCHANGED <<cvars, ovars, evars>>

\* A plausible slip: the directory's call going on after the first future.
all_completed_first(i) == \E j \in Children(i) : tpc[j] = "done"

\* Lines 411-420 and the end of the with block: as_completed(futures) has
\* yielded every future and the executor has shut down.
all_completed(i) == \A j \in Children(i) : tpc[j] = "done"

\* Lines 411-429: every future has completed; after_download is
\* dispatched for the directory with success=False; the executor is shut
\* down.
JoinDir(i) ==
    /\ tpc[i] = "wait"
    /\ all_completed(i)
    /\ tpc' = [tpc EXCEPT ![i] = "done"]
    /\ dispatched' = dispatched \cup {Hook("after_download", i, "False")}
    /\ UNCHANGED <<tree, max_workers, active_downloads, skipped>>
    /\ UNCHANGED <<include_patterns, exclude_patterns, filtered>>
    /\ UNCHANGED <<cvars, ovars, evars>>

WInit ==
    /\ tree \in Trees
    /\ max_workers \in 1..MaxWorkers
    /\ tpc = [i \in DOMAIN tree.parent |-> IF i = 1 THEN "run" ELSE "new"]
    /\ active_downloads = {}
    /\ skipped = {}
    /\ \E c \in PatternConfigs :
          /\ include_patterns = c.include
          /\ exclude_patterns = c.exclude
    /\ filtered = {}
    /\ dispatched = {}

\* The walk's variables while another part of the model runs.
WIdle ==
    /\ tree = TreeFile
    /\ max_workers = 1
    /\ tpc = <<"new">>
    /\ active_downloads = {}
    /\ skipped = {}
    /\ include_patterns = <<>>
    /\ exclude_patterns = <<>>
    /\ filtered = {}
    /\ dispatched = {}

WNext ==
    \/ \E i \in Nodes : StartChild(i)
    \/ \E i \in Nodes : Filter(i)
    \/ \E i \in Nodes : Register(i)
    \/ \E i \in Nodes : Transfer(i)
    \/ \E i \in Nodes : Unregister(i)
    \/ \E i \in Nodes : ListDir(i)
    \/ \E i \in Nodes : JoinDir(i)

----------------------------------------------------------------------------
(* DownloadManager.download_chunk and DownloadManager._open_with_retry *)

\* An error: its class, whether str(e).lower() contains one of the
\* transient indicators, how 'retryafter' appears in it ("none"; "digits",
\* followed by a number the regular expression captures; "unparsed",
\* followed by something else), the number, and for download_chunk's final
\* Exception the class of the error its message names.
Err(kind, indicator, ra_form, ra_value, cause) ==
    [kind |-> kind, indicator |-> indicator, ra_form |-> ra_form,
     ra_value |-> ra_value, cause |-> cause]

\* last_error = None
NoError == Err("None", FALSE, "none", 0, "")

\* What requests.get, raise_for_status and resp.content raise.
RequestExceptions ==
    {Err(k, FALSE, "none", 0, "") : k \in {"HTTPError", "ConnectionError"}}

\* What one request of download_chunk can come to: a 200/206 response, a
\* RequestException, or a response of another status below 400 (204, 304),
\* for which raise_for_status does not raise.
Responses == {"ok", "exception", "other_status"}

\* The cap on a server-specified retry-after value.
RetryAfterCap == 60

\* The retry-after values servers are taken to send.
RetryAfterValues == {0, 5, RetryAfterCap, RetryAfterCap + 30}

\* The errors item.open is taken to raise.
OpenErrors ==
    {Err("Exception", i, "none", 0, "") : i \in BOOLEAN}
        \cup {Err("Exception", i, "unparsed", 0, "") : i \in BOOLEAN}
        \cup {Err("Exception", i, "digits", v, "") :
                i \in BOOLEAN, v \in RetryAfterValues}

\* A plausible slip: every error taken to be transient.
retryable_always(e) == TRUE

\* retryable = any(x in error_str for x in [...])
retryable(e) == e.indicator

\* A plausible slip: the server's value taken as it comes.
wait_time_uncapped(n, e) ==
    IF e.ra_form = "digits" THEN e.ra_value ELSE 2 ^ (n + 1)

\* wait_time of _open_with_retry after the failed attempt number attempt.
wait_time(n, e) ==
    IF e.ra_form = "digits" THEN Min(e.ra_value, RetryAfterCap) ELSE 2 ^ (n + 1)

RInit ==
    /\ rfn \in {"download_chunk", "_open_with_retry"}
    /\ rmax \in 0..MaxRetries
    /\ rpc = "loop"
    /\ retries = 0
    /\ attempt = 0
    /\ issued = 0
    /\ last_error = NoError
    /\ raised = NoError
    /\ sleeps = <<>>

RIdle ==
    /\ rfn = "none"
    /\ rmax = 0
    /\ rpc = "returned"
    /\ retries = 0
    /\ attempt = 0
    /\ issued = 0
    /\ last_error = NoError
    /\ raised = NoError
    /\ sleeps = <<>>

\* Lines 166-175: one pass of download_chunk's while loop.
ChunkRequest ==
    /\ rfn = "download_chunk"
    /\ rpc = "loop"
    /\ retries < rmax
    /\ issued < MaxRequests
    /\ issued' = issued + 1
    /\ \E resp \in Responses :
          CASE resp = "ok" ->
                 /\ rpc' = "returned"
                 /\ UNCHANGED <<retries, last_error, sleeps>>
            [] resp = "exception" ->
                 /\ \E e \in RequestExceptions : last_error' = e
                 /\ retries' = retries + 1
                 /\ sleeps' = Append(sleeps, 2 ^ (retries + 1))
                 /\ rpc' = rpc
            [] OTHER ->
                 UNCHANGED <<rpc, retries, last_error, sleeps>>
    /\ UNCHANGED <<rfn, rmax, attempt, raised>>
    /\ UNCHANGED <<cvars, evars, wvars, vvars, svars>>

\* Line 177: the loop is left, the Exception naming the range and
\* last_error is raised.
ChunkExhausted ==
    /\ rfn = "download_chunk"
    /\ rpc = "loop"
    /\ retries >= rmax
    /\ rpc' = "raised"
    /\ raised' = Err("Exception", FALSE, "none", 0, last_error.kind)
    /\ UNCHANGED <<rfn, rmax, retries, attempt, issued, last_error, sleeps>>
    /\ UNCHANGED <<cvars, evars, wvars, vvars, svars>>

\* Lines 182-211: one pass of _open_with_retry's for loop.
OpenAttempt ==
    /\ rfn = "_open_with_retry"
    /\ rpc = "loop"
    /\ attempt < rmax
    /\ issued' = issued + 1
    /\ \/ /\ rpc' = "returned"
          /\ UNCHANGED <<attempt, last_error, raised, sleeps>>
       \/ \E e \in OpenErrors :
             /\ last_error' = e
             /\ IF retryable(e) /\ attempt < rmax - 1
                THEN /\ sleeps' = Append(sleeps, wait_time(attempt, e))
                     /\ attempt' = attempt + 1
                     /\ UNCHANGED <<rpc, raised>>
                ELSE /\ rpc' = "raised"
                     /\ raised' = e
                     /\ UNCHANGED <<attempt, sleeps>>
    /\ UNCHANGED <<rfn, rmax, retries>>
    /\ UNCHANGED <<cvars, evars, wvars, vvars, svars>>

\* Line 212: "raise last_error" after the for loop, reached when range() is
\* empty; raising None is a TypeError.
OpenExhausted ==
    /\ rfn = "_open_with_retry"
    /\ rpc = "loop"
    /\ attempt >= rmax
    /\ rpc' = "raised"
    /\ raised' = IF last_error = NoError
                 THEN Err("TypeError", FALSE, "none", 0, "")
                 ELSE last_error
    /\ UNCHANGED <<rfn, rmax, retries, attempt, issued, last_error, sleeps>>
    /\ UNCHANGED <<cvars, evars, wvars, vvars, svars>>

RNext ==
    \/ ChunkRequest
    \/ ChunkExhausted
    \/ OpenAttempt
    \/ OpenExhausted

----------------------------------------------------------------------------
(* PluginManager.dispatch on its own *)

\* A registered plugin, for the hook dispatched: whether getattr(plugin,
\* hook, None) is callable, and whether the callback raises an Exception.
PluginKinds ==
    {[callable |-> FALSE, raises |-> FALSE],
     [callable |-> TRUE, raises |-> FALSE],
     [callable |-> TRUE, raises |-> TRUE]}

\* A plausible slip: the try/except around the callback left out.
dispatch_one_unguarded(plugin) ==
    [called |-> plugin.callable, propagates |-> plugin.callable /\ plugin.raises]

\* Lines 130-138, one plugin: the callback is called if there is one, and
\* the Exception it raises is swallowed.
dispatch_one(plugin) ==
    [called |-> plugin.callable, propagates |-> FALSE]

PInit ==
    /\ \E n \in 0..MaxPlugins : plugins \in [1..n -> PluginKinds]
    /\ dnext = 1
    /\ dstate = "loop"
    /\ invoked = <<>>

PIdle ==
    /\ plugins = <<>>
    /\ dnext = 1
    /\ dstate = "returned"
    /\ invoked = <<>>

\* One pass of "for plugin in self._plugins".
DispatchOne ==
    /\ dstate = "loop"
    /\ dnext <= Len(plugins)
    /\ LET r == dispatch_one(plugins[dnext])
       IN  /\ invoked' = IF r.called THEN Append(invoked, dnext) ELSE invoked
           /\ dstate' = IF r.propagates THEN "raised" ELSE "loop"
    /\ dnext' = dnext + 1
    /\ UNCHANGED plugins
    /\ UNCHANGED <<cvars, evars, wvars, vvars, rvars, tvars, gvars>>

\* The loop is over: dispatch returns None.
DispatchReturn ==
    /\ dstate = "loop"
    /\ dnext > Len(plugins)
    /\ dstate' = "returned"
    /\ UNCHANGED <<plugins, dnext, invoked>>
    /\ UNCHANGED <<cvars, evars, wvars, vvars, rvars, tvars, gvars>>

PNext ==
    \/ DispatchOne
    \/ DispatchReturn

----------------------------------------------------------------------------
(* DownloadManager.get_drive_item on its own *)

\* The names of drive items, one character each.
ItemNames == {<<"a">>, <<"b">>}

\* The item paths a drive may hold, as lists of names.
ItemPaths ==
    {<<n>> : n \in ItemNames} \cup {<<n, m>> : n \in ItemNames, m \in ItemNames}

\* The drives: a folder holds a name only if the folder is there.
Drives ==
    {d \in SUBSET ItemPaths :
        \A q \in d : Len(q) > 1 => SubSeq(q, 1, Len(q) - 1) \in d}

\* getattr(self.api.drive, "shared", None) is None
NoShared == [present |-> FALSE, items |-> {}]

\* [p for p in path.strip("/").split("/") if p], word being the part read
\* so far.
RECURSIVE split(_, _)
split(path, word) ==
    LET done == IF word = <<>> THEN <<>> ELSE <<word>>
    IN  IF path = <<>> THEN done
        ELSE IF Head(path) = "/" THEN done \o split(Tail(path), <<>>)
        ELSE split(Tail(path), Append(word, Head(path)))

\* The number of the first segment at which "item = item[part]" raises
\* KeyError walking parts down from a root holding items; 0 if none does.
FailsAt(items, parts) ==
    IF \A n \in 1..Len(parts) : SubSeq(parts, 1, n) \in items THEN 0
    ELSE CHOOSE n \in 1..Len(parts) :
            /\ SubSeq(parts, 1, n) \notin items
            /\ \A m \in 1..(n - 1) : SubSeq(parts, 1, m) \in items

Found(root, parts) == [kind |-> "item", root |-> root, parts |-> parts]

PathNotFound(path) == [kind |-> "Path not found", root |-> "", parts |-> path]

\* get_drive_item(path), lines 122-149.
get_drive_item(owned, shared, path) ==
    LET parts == split(path, <<>>)
    IN  IF parts = <<>> THEN Found("owned", parts)
        ELSE IF FailsAt(owned, parts) = 0 THEN Found("owned", parts)
        ELSE IF ~shared.present THEN PathNotFound(path)
        ELSE IF FailsAt(shared.items, parts) = 0 THEN Found("shared", parts)
        ELSE PathNotFound(path)

\* get_drive_item has not been called.
NoResult == [kind |-> "none", root |-> "", parts |-> <<>>]

GInit ==
    /\ owned_root \in Drives
    /\ shared_root \in {NoShared} \cup {[present |-> TRUE, items |-> d] : d \in Drives}
    /\ gpath \in BytesUpTo({"a", "b", "/"}, MaxPathLen)
    /\ gresult = NoResult

GIdle ==
    /\ owned_root = {}
    /\ shared_root = NoShared
    /\ gpath = <<>>
    /\ gresult = NoResult

GetDriveItem ==
    /\ gresult = NoResult
    /\ gresult' = get_drive_item(owned_root, shared_root, gpath)
    /\ UNCHANGED <<owned_root, shared_root, gpath>>
    /\ UNCHANGED <<cvars, evars, wvars, vvars, rvars, tvars, pvars>>

GNext == GetDriveItem

----------------------------------------------------------------------------
(* DownloadTracker on its own: the checkpoint sidecar of one path *)

\* The tracker instances constructed for the path, as in test_tracker.py.
Trackers == {"tracker", "tracker2"}

\* The positions save_status is called with.
Positions == 0..(MaxSize + 1)

\* A plausible slip: the sidecar's absence not told from a position.
load_unguarded(status) == status

\* load(): the position in the sidecar, 0 when there is none.
load(status) == IF status = NoSidecar THEN 0 ELSE status

\* No tracker call has just returned.
NoTrackerCall == [op |-> "none", who |-> "", position |-> 0]

TInit ==
    /\ tbuilt = {}
    /\ current_position = [t \in Trackers |-> 0]
    /\ texpect = 0
    /\ tlast = NoTrackerCall

TIdle == TInit

\* DownloadTracker(file_path): the instance loads the sidecar.
NewTracker(t) ==
    /\ current_position' = [current_position EXCEPT ![t] = load(sidecar)]
    /\ tbuilt' = tbuilt \cup {t}
    /\ tlast' = [op |-> "new", who |-> t, position |-> load(sidecar)]
    /\ UNCHANGED <<texpect, fvars>>
    /\ UNCHANGED <<dvars, lvars, hvars, cvars, wvars, vvars, rvars, pvars, gvars>>

\* tracker.save_status(n): the position is kept and written to the sidecar.
SaveStatus(t) ==
    /\ t \in tbuilt
    /\ \E n \in Positions :
          /\ current_position' = [current_position EXCEPT ![t] = n]
          /\ sidecar' = n
          /\ texpect' = n
          /\ tlast' = [op |-> "save", who |-> t, position |-> n]
    /\ UNCHANGED <<tbuilt, remote, local, temp, versions_dir, vm_data, meta_doc>>
    /\ UNCHANGED <<dvars, lvars, hvars, cvars, wvars, vvars, rvars, pvars, gvars>>

\* tracker.cleanup(): the sidecar is removed if it is there.
Cleanup(t) ==
    /\ t \in tbuilt
    /\ sidecar' = NoSidecar
    /\ texpect' = 0
    /\ tlast' = [op |-> "cleanup", who |-> t, position |-> 0]
    /\ UNCHANGED <<tbuilt, current_position>>
    /\ UNCHANGED <<remote, local, temp, versions_dir, vm_data, meta_doc>>
    /\ UNCHANGED <<dvars, lvars, hvars, cvars, wvars, vvars, rvars, pvars, gvars>>

TNext ==
    \/ \E t \in Trackers : NewTracker(t)
    \/ \E t \in Trackers : SaveStatus(t)
    \/ \E t \in Trackers : Cleanup(t)

\* The smaller parts, while another part runs.
SIdle == TIdle /\ PIdle /\ GIdle

----------------------------------------------------------------------------
(* VersionManager on its own: record_version, latest_checksum, reload *)

\* The worker threads that call record_version on the one VersionManager.
Callers == {"w1", "w2"}

\* No concurrent caller has begun.
KIdle ==
    /\ kpc = [t \in Callers |-> "idle"]
    /\ kkey = [t \in Callers |-> ""]
    /\ kver = [t \in Callers |-> 0]
    /\ kbuf = [t \in Callers |-> NoMeta]
    /\ kdata0 = EmptyLedger

\* No record_version call has just returned.
NoCall == [key |-> "", checksum |-> None, how |-> "none", raised |-> FALSE]

\* A fresh root: VersionManager.__init__ finds no document; a file may be
\* there at either path.
VInit ==
    /\ vfiles \in [RelPaths -> {NoFile, File(<<OldByte>>)}]
    /\ vcall = NoCall
    /\ vcalls = 0
    /\ vdone = [k \in RelPaths |-> <<>>]
    /\ vsaved = TRUE
    /\ KIdle

VIdle ==
    /\ vfiles = [k \in RelPaths |-> NoFile]
    /\ vcall = NoCall
    /\ vcalls = 0
    /\ vdone = [k \in RelPaths |-> <<>>]
    /\ vsaved = TRUE
    /\ KIdle

\* One call of record_version(k, checksum, root / k) for the file at k, as
\* the downloader makes it (downloader.py:245-249): the file is there and
\* the checksum is its own.
RecordVersion(k) ==
    /\ vcalls < MaxCalls
    /\ Exists(vfiles[k])
    /\ \E how \in RecordOutcomes, save \in SaveOutcomes :
          /\ how # "moved" => save = "written"
          /\ LET checksum == calculate_checksum(vfiles[k])
                 r == record_version(vm_data, meta_doc, versions_dir, k,
                                     checksum, vfiles[k], how, save)
             IN  /\ vfiles' = [vfiles EXCEPT ![k] = r.src]
                 /\ versions_dir' = r.vdir
                 /\ vm_data' = r.ledger
                 /\ meta_doc' = r.doc
                 /\ vcall' = [key |-> k, checksum |-> checksum, how |-> how,
                              raised |-> r.raised]
                 /\ vdone' = IF how = "moved"
                             THEN [vdone EXCEPT ![k] = Append(@, checksum)]
                             ELSE vdone
          /\ vsaved' = (vsaved /\ save = "written")
    /\ vcalls' = vcalls + 1
    /\ UNCHANGED <<remote, local, temp, sidecar, kvars>>
    /\ UNCHANGED <<dvars, lvars, hvars, cvars, wvars, rvars, svars>>

\* A new file is put at a path whose file was archived (downloader.py:291,
\* the staged file moved into place).
WriteFile(k) ==
    /\ ~Exists(vfiles[k])
    /\ \E b \in {OldByte, NewByte} : vfiles' = [vfiles EXCEPT ![k] = File(<<b>>)]
    /\ vcall' = NoCall
    /\ UNCHANGED <<vcalls, vdone, vsaved, kvars>>
    /\ UNCHANGED <<evars, cvars, wvars, rvars, svars>>

\* VersionManager(root) constructed anew on the same root: __init__ and _load.
Reload ==
    /\ vm_data' = _load(meta_doc)
    /\ vcall' = NoCall
    /\ UNCHANGED <<vfiles, vcalls, vdone, vsaved, kvars>>
    /\ UNCHANGED <<remote, local, temp, sidecar, versions_dir, meta_doc>>
    /\ UNCHANGED <<dvars, lvars, hvars, cvars, wvars, rvars, svars>>

\* The parts modelled on their own, while another part runs.
OIdle == VIdle /\ RIdle /\ SIdle

VNext ==
    \/ \E k \in RelPaths : RecordVersion(k)
    \/ \E k \in RelPaths : WriteFile(k)
    \/ Reload

WalkInit ==
    /\ WInit
    /\ CIdle /\ FIdle /\ LIdle /\ OIdle
    /\ version_manager \in BOOLEAN
    /\ download_results = <<>>

SpecWalk == WalkInit /\ [][WNext]_vars

\* The walk with its threads scheduled: a step that stays possible is taken.
SpecWalkFair == WalkInit /\ [][WNext]_vars /\ WF_vars(WNext)

ChunkInit == CInit /\ EIdle /\ WIdle /\ OIdle

SpecChunk == ChunkInit /\ [][CNext]_vars

VersionInit == VInit /\ RIdle /\ SIdle /\ EIdle /\ CIdle /\ WIdle

SpecVersion == VersionInit /\ [][VNext]_vars

RetryInit == RInit /\ VIdle /\ SIdle /\ EIdle /\ CIdle /\ WIdle

SpecRetry == RetryInit /\ [][RNext]_vars

TrackerInit == TInit /\ PIdle /\ GIdle /\ VIdle /\ RIdle /\ EIdle /\ CIdle /\ WIdle

DispatchInit == PInit /\ TIdle /\ GIdle /\ VIdle /\ RIdle /\ EIdle /\ CIdle /\ WIdle

SpecDispatch == DispatchInit /\ [][PNext]_vars

DriveInit == GInit /\ TIdle /\ PIdle /\ VIdle /\ RIdle /\ EIdle /\ CIdle /\ WIdle

SpecDrive == DriveInit /\ [][GNext]_vars

SpecTracker == TrackerInit /\ [][TNext]_vars

Init == EInit /\ CIdle /\ WIdle /\ OIdle

Next ==
    \/ Begin
    \/ Open
    \/ Diff
    \/ Backup
    \/ Stage
    \/ Fetch
    \/ Verify
    \/ Commit
    \/ UpdateVersions
    \/ Except
    \/ Main

Spec == Init /\ [][Next]_vars

----------------------------------------------------------------------------
(* Properties of download_drive_item (Spec) *)

\* The records the current call appended.
NewResults == SubSeq(download_results, results0 + 1, Len(download_results))

\* The call raised inside its try block and its handler ran.
RaisedAt(errors) == pc = "returned" /\ ret = "false" /\ err \in errors

\* The call returned at line 298: the staging file was empty or missing.
StagingRefused ==
    /\ pc = "returned"
    /\ ret = "false"
    /\ err = ""
    /\ changed_ranges # <<>>
    /\ idx > Len(changed_ranges)

\* C1: when download_drive_item ends in failure (an error raised at open,
\* diff, fetch, write or verify), the local file still exists with exactly
\* the content it had before the call, versioning enabled or not.
C1_FailureLeavesLocalUntouched ==
    (RaisedAt({"open", "oserror", "download_chunk"}) \/ StagingRefused)
        => local = local0

\* C4: one call of download_drive_item appends at most one record to
\* download_results, never both a completed and a failed one.
C4_AtMostOneResultPerCall ==
    Len(download_results) - results0 <= 1

\* C5: no local file, remote size N > 0, the open and every range fetch
\* succeeding: the call returns True, the local file has size N, and the
\* call's records hold a completed one with changes = 1 and no failed one,
\* with versioning disabled and enabled.
C5_FreshDownloadCompletes ==
    (/\ pc = "returned"
     /\ ~Exists(local0)
     /\ total_size > 0
     /\ fetches = Len(changed_ranges)
     /\ fetches > 0
     /\ fetched_all)
        => /\ ret = "true"
           /\ Exists(local) /\ StSize(local) = total_size
           /\ \E i \in DOMAIN NewResults :
                 NewResults[i].status = "completed" /\ NewResults[i].changes = 1
           /\ \A i \in DOMAIN NewResults : NewResults[i].status # "failed"

\* C6: when the local file's size equals the remote's declared size, the
\* call appends a record with status unchanged and zero bytes transferred,
\* fetches no range and leaves the local file untouched.
C6_UnchangedIsRecorded ==
    (/\ pc = "returned"
     /\ ret = "true"
     /\ changed_ranges = <<>>
     /\ Exists(local0)
     /\ StSize(local0) = total_size)
        => /\ Len(NewResults) = 1
           /\ NewResults[1].status = "unchanged"
           /\ NewResults[1].downloaded = 0
           /\ fetches = 0
           /\ local = local0

\* C7: when the verification step finds the staging file missing or empty,
\* a failed record with an explicit error is appended and the original
\* local file is unchanged on disk.
C7_EmptyStagingIsRecordedAsFailed ==
    StagingRefused
        => /\ Len(NewResults) = 1
           /\ NewResults[1].status = "failed"
           /\ NewResults[1].error # ""
           /\ local = local0

----------------------------------------------------------------------------
(* Properties of process_item_parallel (SpecWalk) *)

\* The calls that are inside download_drive_item.
Transferring == {i \in Nodes : tpc[i] = "xfer"}

\* C2: at any instant at most one worker executes download_drive_item for
\* a given local target path, and every path being transferred is
\* registered in _active_downloads.
C2_OneTransferPerPath ==
    /\ \A i \in Transferring, j \in Transferring :
          LocalPath(i) = LocalPath(j) => i = j
    /\ \A i \in Transferring : LocalPath(i) \in active_downloads

\* A leaf is being transferred while a second listing of the same path has
\* been turned away by the guard.
C2_Witness ==
    \E i \in Transferring, j \in skipped :
        i # j /\ LocalPath(i) = LocalPath(j)

\* C3: with max_workers = W, the leaf transfers executing simultaneously
\* never exceed W, for every tree depth and width.
C3_TransfersBoundedByMaxWorkers ==
    Cardinality(Transferring) <= max_workers

----------------------------------------------------------------------------
(* Properties of FileChunker (SpecChunk) *)

\* C8: for every local file whose size equals the reported remote size,
\* find_changed_chunks, called with the local path and the file's chunk
\* map, returns no range.
C8_EqualSizeNoRanges ==
    (/\ cpc = "diffed"
     /\ path_given
     /\ Exists(cfile)
     /\ StSize(cfile) = cremote
     /\ existing_chunks = get_file_chunks(chunk_size, cfile))
        => cranges = <<>>

\* A non-empty local file of the remote's size was diffed and found unchanged.
C8_Witness ==
    /\ cpc = "diffed"
    /\ path_given
    /\ Exists(cfile)
    /\ cremote > 0
    /\ StSize(cfile) = cremote
    /\ existing_chunks = get_file_chunks(chunk_size, cfile)
    /\ cranges = <<>>

\* C9, as claimed: for every remote size, 0 included, an empty existing
\* chunk map yields exactly the range (0, remoteSize - 1).
C9_EmptyMapFullRangeAnySize ==
    (cpc = "diffed" /\ DOMAIN existing_chunks = {})
        => cranges = <<<<0, cremote - 1>>>>

\* C9, amended: for every remote size greater than 0, an empty existing
\* chunk map yields exactly the range (0, remoteSize - 1); for remote size
\* 0 no range is returned.
C9_EmptyMapFullRange ==
    (cpc = "diffed" /\ DOMAIN existing_chunks = {})
        => cranges = IF cremote > 0 THEN <<<<0, cremote - 1>>>> ELSE <<>>

\* No local copy, a remote of some bytes: one range spanning all of it.
C9_Witness ==
    /\ cpc = "diffed"
    /\ ~Exists(cfile)
    /\ DOMAIN existing_chunks = {}
    /\ cremote > 1
    /\ cranges = <<<<0, cremote - 1>>>>

\* C10: a non-empty local file whose size differs from a non-zero remote
\* size is refetched whole, (0, remoteSize - 1), whatever the chunk map
\* holds and whether or not the local path is passed.
C10_SizeDiffersFullRange ==
    (/\ cpc = "diffed"
     /\ Exists(cfile)
     /\ StSize(cfile) > 0
     /\ cremote # 0
     /\ StSize(cfile) # cremote)
        => cranges = <<<<0, cremote - 1>>>>

\* A local file longer than the remote, with a chunk map that shares
\* chunks with it, is refetched whole.
C10_Witness ==
    /\ cpc = "diffed"
    /\ path_given
    /\ Exists(cfile)
    /\ StSize(cfile) > cremote
    /\ cremote > 0
    /\ existing_chunks = get_file_chunks(chunk_size, cfile)
    /\ Cardinality(DOMAIN existing_chunks) > 1
    /\ cranges = <<<<0, cremote - 1>>>>

\* The ranges of the chunks of data, read cs bytes at a time from
\* position, whose bytes differ from those of body at the same place.
RECURSIVE DifferingChunks(_, _, _, _)
DifferingChunks(data, body, cs, position) ==
    IF position >= Len(data) THEN <<>>
    ELSE LET last == Min(position + cs, Len(data))
             rest == DifferingChunks(data, body, cs, last)
         IN  IF SubSeq(data, position + 1, last) = SubSeq(body, position + 1, last)
             THEN rest
             ELSE <<<<position, last - 1>>>> \o rest

\* The remote body has the local file's length and other bytes somewhere,
\* and the file's own chunk map was handed in.
SameLengthOtherBytes ==
    /\ cpc = "diffed"
    /\ Exists(cfile)
    /\ StSize(cfile) > 0
    /\ Len(cbody) = StSize(cfile)
    /\ cbody # cfile.data
    /\ existing_chunks = get_file_chunks(chunk_size, cfile)

CeilDiv(s, c) == (s + c - 1) \div c

\* The sum of the lengths of the ranges a chunk map holds.
RECURSIVE SumLengths(_, _)
SumLengths(chunks, keys) ==
    IF keys = {} THEN 0
    ELSE LET k == CHOOSE x \in keys : TRUE
         IN  (chunks[k][2] - chunks[k][1] + 1) + SumLengths(chunks, keys \ {k})

\* C12: for every file of size S and chunk size C, get_file_chunks returns
\* a map of exactly ceil(S/C) entries, each range C long but the last, which
\* ends at S - 1, and the range lengths sum to S, also when two chunks of
\* the file hold the same bytes.
C12_ChunkCountAndLengths ==
    (cpc # "init" /\ Exists(cfile))
        => /\ Cardinality(DOMAIN cchunks) = CeilDiv(StSize(cfile), chunk_size)
           /\ SumLengths(cchunks, DOMAIN cchunks) = StSize(cfile)
           /\ \A h \in DOMAIN cchunks :
                 \/ cchunks[h][2] - cchunks[h][1] + 1 = chunk_size
                 \/ cchunks[h][2] = StSize(cfile) - 1

----------------------------------------------------------------------------
(* Properties of VersionManager (SpecVersion) *)

\* The versions of a path, in ledger order.
Versions(ledger, k) == [i \in 1..Len(ledger[k]) |-> ledger[k][i].version]

\* The checksums of a path, in ledger order.
LedgerChecksums(ledger, k) == [i \in 1..Len(ledger[k]) |-> ledger[k][i].checksum]

\* C13: two record_version calls on one path of a fresh root that archived
\* the file and wrote the document leave entries with versions 1 then 2, in
\* that order, and a VersionManager constructed on the root afterwards
\* loads both.
C13_TwoCallsOneThenTwo ==
    \A k \in RelPaths :
        (vsaved /\ Len(vdone[k]) = 2)
            => /\ Versions(vm_data, k) = <<1, 2>>
               /\ LedgerChecksums(vm_data, k) = vdone[k]
               /\ Versions(_load(meta_doc), k) = <<1, 2>>
               /\ _load(meta_doc)[k] = vm_data[k]

\* The second archiving call on one path has just returned.
C13_Witness ==
    /\ vsaved
    /\ Len(vdone[Key]) = 2
    /\ vcall.how = "moved"
    /\ vcall.key = Key
    /\ Versions(_load(meta_doc), Key) = <<1, 2>>

\* C14: after any sequence of record_version calls on one root, the
\* relocation succeeding or failing, each path's version numbers are
\* 1, 2, ... without gap; a call only ever appends one record to its own
\* path, and a call whose relocation failed leaves the ledger as it was, so
\* that the next archiving call gets the number the failed one would have had.
C14_GapFreeAppendOnly ==
    /\ [](\A k \in RelPaths :
            \A i \in 1..Len(vm_data[k]) : vm_data[k][i].version = i)
    /\ [][vcalls' = vcalls + 1 =>
            /\ \A k \in RelPaths \ {vcall'.key} : vm_data'[k] = vm_data[k]
            /\ LET before == vm_data[vcall'.key]
                   after == vm_data'[vcall'.key]
               IN  IF vcall'.how = "moved"
                   THEN /\ Len(after) = Len(before) + 1
                        /\ SubSeq(after, 1, Len(before)) = before
                        /\ after[Len(after)].version = Len(before) + 1
                        /\ after[Len(after)].checksum = vcall'.checksum
                   ELSE after = before]_vars

\* A failed relocation between two archiving calls on one path: three calls,
\* versions 1 and 2.
C14_Witness ==
    /\ vcalls = 3
    /\ vcall.how = "moved"
    /\ Len(vdone[vcall.key]) = 2
    /\ \A k \in RelPaths \ {vcall.key} : vdone[k] = <<>>
    /\ Versions(vm_data, vcall.key) = <<1, 2>>

\* C15: if the relocation of the source file fails inside record_version,
\* the call is a no-op: the ledger in memory and the persisted document are
\* as before the call, the source file is still at its path, and no error is
\* raised to the caller.
C15_FailedRelocationIsNoOp ==
    [][(vcalls' = vcalls + 1 /\ vcall'.how \in {"move_failed", "mkdir_raised"})
          => /\ vm_data' = vm_data
             /\ meta_doc' = meta_doc
             /\ vfiles'[vcall'.key] = vfiles[vcall'.key]
             /\ Exists(vfiles'[vcall'.key])
             /\ ~vcall'.raised]_vars

\* C16: latest_checksum(relPath) is None when no version was ever recorded
\* for relPath, and otherwise the checksum passed to the most recent
\* record_version call that archived relPath; a VersionManager constructed
\* on the root afterwards gives the same answer (every _save having written
\* the document).
C16_LatestChecksum ==
    \A k \in RelPaths :
        LET expected == IF vdone[k] = <<>> THEN None ELSE vdone[k][Len(vdone[k])]
        IN  vsaved => /\ latest_checksum(vm_data, k) = expected
                      /\ latest_checksum(_load(meta_doc), k) = expected

\* Two archiving calls on one path with different checksums and nothing
\* recorded for the other path.
C16_Witness ==
    /\ vsaved
    /\ Len(vdone[Key]) = 2
    /\ vdone[Key][1] # vdone[Key][2]
    /\ latest_checksum(_load(meta_doc), Key) = vdone[Key][2]
    /\ \E k \in RelPaths : latest_checksum(vm_data, k) = None

----------------------------------------------------------------------------
(* Properties of the retry loops (SpecRetry) *)

\* C17: download_chunk issues at most max_retries requests: every response
\* that is not a 200/206 success, raised as an exception or returned with
\* another status, counts as one failed attempt, and after max_retries
\* failed attempts the Exception naming the last underlying error is raised.
C17_AtMostMaxRetriesRequests ==
    rfn = "download_chunk"
        => /\ issued <= rmax
           /\ retries = issued - (IF rpc = "returned" THEN 1 ELSE 0)
           /\ rpc = "raised" => (retries = rmax /\ raised.cause = last_error.kind)

\* C18: _open_with_retry with budget N >= 1 calls item.open at most N
\* times; an error without transient indicator propagates from the attempt
\* that met it, with no wait after it; a retryable error is waited on and
\* retried while attempts are left, and propagates when it is the N-th
\* attempt that failed; what propagates is the last error.
C18_OpenAttemptBudget ==
    (rfn = "_open_with_retry" /\ rmax >= 1)
        => /\ issued <= rmax
           /\ rpc = "loop" =>
                 /\ issued < rmax
                 /\ Len(sleeps) = issued
                 /\ issued > 0 => last_error.indicator
           /\ rpc = "returned" => Len(sleeps) = issued - 1
           /\ rpc = "raised" =>
                 /\ raised = last_error
                 /\ Len(sleeps) = issued - 1
                 /\ raised.indicator => issued = rmax

\* A retryable error met on every attempt: the last one propagates after
\* N calls and N - 1 waits.
C18_Witness ==
    /\ rfn = "_open_with_retry"
    /\ rmax >= 2
    /\ rpc = "raised"
    /\ raised.indicator
    /\ issued = rmax
    /\ Len(sleeps) = rmax - 1

----------------------------------------------------------------------------
(* Properties of the pattern filter and the plugin hooks (SpecWalk) *)

\* The path of call i matches one of the patterns.
MatchesAny(i, patterns) ==
    \E n \in DOMAIN patterns : fnmatch(PosixPath(i), patterns[n])

\* Call i has passed the filter of lines 363-367 or returned at it.
Decided(i) == tpc[i] \notin {"new", "queued", "run"}

\* download_drive_item was called for leaf i.
Submitted(i) == Hook("before_download", i, "") \in dispatched

\* C19: a call whose relative path matches an exclude pattern returns at
\* the filter, also when the path matches an include pattern, and its item
\* is never handed to download_drive_item; with no include patterns every
\* call on a path that matches no exclude pattern goes on; with include
\* patterns a call goes on only if its path matches one of them. With
\* exclude 'A/*' and no include pattern, A/x is never handed to
\* download_drive_item and the call on D/x is not filtered.
C19_FilterDecides ==
    \A i \in Nodes :
        /\ MatchesAny(i, exclude_patterns)
              => /\ ~Submitted(i)
                 /\ tpc[i] \notin {"xfer", "fin", "exc"}
                 /\ Decided(i) => i \in filtered
        /\ (Decided(i) /\ include_patterns = <<>> /\ ~MatchesAny(i, exclude_patterns))
              => i \notin filtered
        /\ (Decided(i) /\ include_patterns # <<>> /\ i \notin filtered)
              => MatchesAny(i, include_patterns)
        /\ (include_patterns = <<>> /\ exclude_patterns = <<<<"A", "/", "*">>>>)
              => /\ PosixPath(i) = <<"A", "/", "x">> => ~Submitted(i)
                 /\ (PosixPath(i) = <<"D", "/", "x">> /\ Decided(i))
                       => i \notin filtered

\* The walk of the nested tree has ended with exclude 'A/*': the call on
\* A/x returned at the filter and D/x was handed to download_drive_item.
C19_Witness ==
    /\ tree = TreeNested
    /\ include_patterns = <<>>
    /\ exclude_patterns = <<<<"A", "/", "*">>>>
    /\ tpc[1] = "done"
    /\ \E i, j \in Nodes :
          /\ PosixPath(i) = <<"A", "/", "x">>
          /\ i \in filtered
          /\ PosixPath(j) = <<"D", "/", "x">>
          /\ Submitted(j)

\* The after_download hooks dispatched for item i.
AfterDownloads(i) ==
    {h \in dispatched : h.hook = "after_download" /\ h.item = i}

\* C20: for every leaf registered in the active set, before_download is
\* followed by the run of download_drive_item and by exactly one
\* after_download for the same item carrying the outcome, then the leaf is
\* unregistered; and every after_download is for a leaf and preceded by
\* that leaf's before_download.
C20_BeforeThenExactlyOneAfter ==
    /\ \A i \in Nodes :
          (IsFile(i) /\ Submitted(i) /\ tpc[i] \in {"fin", "exc", "done"})
              => Cardinality(AfterDownloads(i)) = 1
    /\ \A h \in dispatched :
          h.hook = "after_download" => (IsFile(h.item) /\ Submitted(h.item))

----------------------------------------------------------------------------
(* Properties of DownloadTracker (SpecTracker) *)

\* C21: after save_status(N), current_position is N and a tracker
\* constructed afterwards for the path loads N; a tracker constructed when
\* there is no sidecar loads 0; after cleanup() the sidecar is absent and a
\* tracker constructed afterwards loads 0; cleanup() on an absent sidecar
\* leaves it absent.
C21_CheckpointRoundTrip ==
    /\ tlast.op = "save" =>
          /\ current_position[tlast.who] = tlast.position
          /\ sidecar = tlast.position
    /\ tlast.op = "new" =>
          /\ current_position[tlast.who] = texpect
          /\ sidecar = NoSidecar => current_position[tlast.who] = 0
    /\ tlast.op = "cleanup" => sidecar = NoSidecar

\* A second instance has loaded the position the first one saved.
C21_Witness ==
    /\ tlast.op = "new"
    /\ tlast.who = "tracker2"
    /\ current_position["tracker2"] = MaxSize
    /\ current_position["tracker"] = MaxSize
    /\ sidecar = MaxSize

----------------------------------------------------------------------------
(* Properties of PluginManager.dispatch (SpecDispatch) *)

\* The indices from n on of the plugins that have a callback for the hook.
RECURSIVE Listeners(_)
Listeners(n) ==
    IF n > Len(plugins) THEN <<>>
    ELSE IF plugins[n].callable THEN <<n>> \o Listeners(n + 1)
    ELSE Listeners(n + 1)

\* C22: dispatch never raises: the exception a listener's callback raises
\* is swallowed, and every registered listener that implements the hook is
\* invoked, in registration order.
C22_DispatchNeverRaises ==
    /\ dstate # "raised"
    /\ dstate = "returned" => invoked = Listeners(1)

\* Dispatch has returned after a listener that raised and a later one that
\* was still invoked.
C22_Witness ==
    /\ dstate = "returned"
    /\ \E i, j \in DOMAIN plugins :
          /\ i < j
          /\ plugins[i].callable /\ plugins[i].raises
          /\ plugins[j].callable
          /\ invoked = Listeners(1)

----------------------------------------------------------------------------
(* Properties of get_drive_item (SpecDrive) *)

\* C23: get_drive_item returns the owned item whenever the whole path
\* resolves from the owned root; it returns an item of the shared root
\* only when the owned root has not even the first segment; and when the
\* path resolves in neither root it raises 'Path not found' naming the path.
C23_SharedOnlyOnFirstSegment ==
    LET parts == split(gpath, <<>>)
    IN  (gresult # NoResult /\ parts # <<>>) =>
           /\ FailsAt(owned_root, parts) = 0 => gresult = Found("owned", parts)
           /\ gresult.root = "shared" => FailsAt(owned_root, parts) = 1
           /\ (/\ FailsAt(owned_root, parts) # 0
               /\ shared_root.present => FailsAt(shared_root.items, parts) # 0)
                 => gresult = PathNotFound(gpath)

----------------------------------------------------------------------------
(* Properties of the run summary (Spec) *)

\* sum(r.downloaded for r in self.download_results), line 503.
RECURSIVE SumDownloaded(_)
SumDownloaded(results) ==
    IF results = <<>> THEN 0
    ELSE results[1].downloaded + SumDownloaded(Tail(results))

\* sum(getattr(r, 'changes', 0) for r in self.download_results), line 504.
RECURSIVE SumChanges(_)
SumChanges(results) ==
    IF results = <<>> THEN 0
    ELSE results[1].changes + SumChanges(Tail(results))

\* generate_summary_report, lines 498-516, over a list of records.
generate_summary_report(results) ==
    [total_files |-> Len(results),
     successful |-> Cardinality({i \in DOMAIN results : results[i].status = "completed"}),
     failed |-> Cardinality({i \in DOMAIN results : results[i].status = "failed"}),
     total_bytes_transferred |-> SumDownloaded(results),
     total_changed_chunks |-> SumChanges(results),
     details |-> results]

\* C24: for each leaf for which download_drive_item returns False, the
\* summary's details hold a record with that path, status failed and a
\* non-empty error message, and the failed count equals the number of such
\* files: the records of a call that returned False count one failure.
C24_FailureIsInSummary ==
    (pc = "returned" /\ ret = "false")
        => LET summary == generate_summary_report(NewResults)
           IN  /\ \E i \in DOMAIN summary.details :
                     /\ summary.details[i].path = Key
                     /\ summary.details[i].status = "failed"
                     /\ summary.details[i].error # ""
               /\ summary.failed = 1

\* C25: the exit status of a download run is non-zero if and only if at
\* least one file transfer failed: of a run that main saw through to its
\* end, the status is 0 when every call returned True and non-zero when
\* some call returned False.
C25_ExitStatusReflectsFailures ==
    (pc = "exited" /\ exited.by = "returned")
        => (exited.status # 0 <=> any_failed)

----------------------------------------------------------------------------
(* Properties of repeated runs (Spec) *)

\* A call before the current one moved its staging file over the local
\* file: it left a completed record.
CommittedBefore ==
    \E i \in 1..results0 : download_results[i].status = "completed"

\* C26: re-running is idempotent: once a call committed the file and the
\* remote file has not changed, the next call over the same path finds no
\* changed range and fetches nothing, whatever the local file was before
\* the first call and whether or not the archive relocation succeeded.
C26_RerunIsUnchanged ==
    (runs = 2 /\ CommittedBefore)
        => (changed_ranges = <<>> /\ fetches = 0)

----------------------------------------------------------------------------
(* Properties of the ledger as the engine uses it (Spec) *)

\* C27: when a transfer reaches Committed with versioning enabled and the
\* path has no ledger entry at all, a version-0 baseline record carrying the
\* new file's checksum is added to the ledger and persisted; when the path
\* already has an entry, no baseline record is added.
C27_BaselineOnFirstCommit ==
    [][(pc = "versions" /\ pc' # "versions" /\ version_manager)
          => IF vm_data[Key] = <<>>
             THEN /\ Len(vm_data'[Key]) = 1
                  /\ vm_data'[Key][1].version = 0
                  /\ vm_data'[Key][1].checksum = temp_checksum
                  /\ meta_doc' = json_dump(vm_data')
             ELSE vm_data' = vm_data]_vars

----------------------------------------------------------------------------
(* VersionManager.record_version called from two worker threads.  The     *)
(* method takes no lock, so each statement group is a step of its own.    *)

\* A ledger whose document was written: empty, or one version of Key.
SavedLedgers ==
    {EmptyLedger,
     [EmptyLedger EXCEPT ![Key] =
        <<[version |-> 1, checksum |-> calculate_checksum(File(<<OldByte>>)),
           archived |-> <<Key, 1>>]>>]}

\* The file at each path while the callers run.
KFile(k) == File(<<IF k = Key THEN OldByte ELSE NewByte>>)

\* A root with a file at each path and a manager whose document matches
\* its ledger.
KInit ==
    /\ vfiles = [k \in RelPaths |-> KFile(k)]
    /\ vcall = NoCall
    /\ vcalls = 0
    /\ vdone = [k \in RelPaths |-> <<>>]
    /\ vsaved = TRUE
    /\ kpc = [t \in Callers |-> "idle"]
    /\ kkey = [t \in Callers |-> ""]
    /\ kver = [t \in Callers |-> 0]
    /\ kbuf = [t \in Callers |-> NoMeta]
    /\ kdata0 \in SavedLedgers
    /\ vm_data = kdata0
    /\ meta_doc = json_dump(kdata0)
    /\ versions_dir = {}
    /\ remote = <<>>
    /\ local = NoFile
    /\ temp = NoFile
    /\ sidecar = NoSidecar

\* What a concurrent step leaves alone.
KUnchanged ==
    /\ UNCHANGED <<remote, local, temp, sidecar, kdata0>>
    /\ UNCHANGED <<vcall, vcalls, vdone>>
    /\ UNCHANGED <<dvars, lvars, hvars, cvars, wvars, rvars, svars>>

\* downloader.py 245-249 calls record_version for a file that is there;
\* versioning.py 46-50: the key, and version_nr from the last record of
\* the list as it is now.
PeekVersion(t) ==
    /\ kpc[t] = "idle"
    /\ \E k \in RelPaths :
          /\ Exists(vfiles[k])
          /\ kkey' = [kkey EXCEPT ![t] = k]
          /\ kver' = [kver EXCEPT ![t] = next_version(vm_data[k])]
    /\ kpc' = [kpc EXCEPT ![t] = "move"]
    /\ UNCHANGED <<vfiles, versions_dir, vm_data, meta_doc, kbuf, vsaved>>
    /\ KUnchanged

\* Lines 52-59: dest.parent.mkdir and shutil.move of root / key. A source
\* that is no longer there makes the move raise; the method returns.
MoveSource(t) ==
    /\ kpc[t] = "move"
    /\ \E how \in RecordOutcomes :
          /\ ~Exists(vfiles[kkey[t]]) => how # "moved"
          /\ IF how = "moved"
             THEN LET dest == <<kkey[t], kver[t]>>
                  IN  /\ versions_dir' = {f \in versions_dir : f.dest # dest}
                            \cup {[dest |-> dest, data |-> vfiles[kkey[t]].data]}
                      /\ vfiles' = [vfiles EXCEPT ![kkey[t]] =
                                      record_version_source(@)]
                      /\ kpc' = [kpc EXCEPT ![t] = "append"]
             ELSE /\ UNCHANGED <<versions_dir, vfiles>>
                  /\ kpc' = [kpc EXCEPT ![t] = "gave_up"]
    /\ UNCHANGED <<vm_data, meta_doc, kkey, kver, kbuf, vsaved>>
    /\ KUnchanged

\* Lines 62-71: setdefault and append of the record numbered version_nr.
AppendRecord(t) ==
    /\ kpc[t] = "append"
    /\ vm_data' = [vm_data EXCEPT ![kkey[t]] =
          Append(@, [version |-> kver[t],
                     checksum |-> calculate_checksum(KFile(kkey[t])),
                     archived |-> <<kkey[t], kver[t]>>])]
    /\ kpc' = [kpc EXCEPT ![t] = "save"]
    /\ UNCHANGED <<vfiles, versions_dir, meta_doc, kkey, kver, kbuf, vsaved>>
    /\ KUnchanged

\* _save, lines 86-87: open("w") empties the document, json.dump puts the
\* ledger as it is now into the file object's buffer. OSError at open is
\* swallowed.
SaveDump(t) ==
    /\ kpc[t] = "save"
    /\ \E ok \in BOOLEAN :
          IF ok
          THEN /\ meta_doc' = PartialMeta
               /\ kbuf' = [kbuf EXCEPT ![t] = json_dump(vm_data)]
               /\ kpc' = [kpc EXCEPT ![t] = "close"]
               /\ vsaved' = vsaved
          ELSE /\ UNCHANGED <<meta_doc, kbuf>>
               /\ kpc' = [kpc EXCEPT ![t] = "done"]
               /\ vsaved' = FALSE
    /\ UNCHANGED <<vfiles, versions_dir, vm_data, kkey, kver>>
    /\ KUnchanged

\* The records of a ledger, the measure of its document's length.
Records(ledger) == UNION {{<<k, i>> : i \in 1..Len(ledger[k])} : k \in RelPaths}

\* _save, the end of the with block: the buffer is written from the file
\* object's own offset 0. Over a longer document that another caller wrote
\* in between, the longer one's tail stays and the text is no JSON.
SaveClose(t) ==
    /\ kpc[t] = "close"
    /\ \E ok \in BOOLEAN :
          IF ok
          THEN /\ meta_doc' =
                    IF /\ meta_doc.kind = "json"
                       /\ Cardinality(Records(meta_doc.ledger))
                             > Cardinality(Records(kbuf[t].ledger))
                    THEN PartialMeta
                    ELSE kbuf[t]
               /\ vsaved' = vsaved
          ELSE /\ meta_doc' = PartialMeta
               /\ vsaved' = FALSE
    /\ kpc' = [kpc EXCEPT ![t] = "done"]
    /\ UNCHANGED <<vfiles, versions_dir, vm_data, kkey, kver, kbuf>>
    /\ KUnchanged

KNext ==
    \/ \E t \in Callers : PeekVersion(t)
    \/ \E t \in Callers : MoveSource(t)
    \/ \E t \in Callers : AppendRecord(t)
    \/ \E t \in Callers : SaveDump(t)
    \/ \E t \in Callers : SaveClose(t)

ConcurrentInit == KInit /\ LIdle /\ DIdle /\ RIdle /\ SIdle /\ CIdle /\ WIdle

SpecConcurrent == ConcurrentInit /\ [][KNext]_vars


----------------------------------------------------------------------------
(* Properties of concurrent record_version calls (SpecConcurrent) *)

\* The callers whose record was appended.
Appended(k) == {t \in Callers : kkey[t] = k /\ kpc[t] \in {"save", "close", "done"}}

\* C28: record_version is atomic with respect to other callers on the same
\* root: in any interleaving of two concurrent calls, no two records of one
\* path share a version number, no appended record is lost, and once both
\* calls have returned (no write having failed) the persisted document
\* equals the in-memory ledger.
C28_RecordVersionAtomic ==
    /\ \A k \in RelPaths : \A i, j \in DOMAIN vm_data[k] :
          i # j => vm_data[k][i].version # vm_data[k][j].version
    /\ \A k \in RelPaths :
          Len(vm_data[k]) = Len(kdata0[k]) + Cardinality(Appended(k))
    /\ (/\ \A t \in Callers : kpc[t] \in {"done", "gave_up"}
        /\ \E t \in Callers : kpc[t] = "done"
        /\ vsaved)
          => meta_doc = json_dump(vm_data)

----------------------------------------------------------------------------
(* Properties of _open_with_retry's waits (SpecRetry) *)

\* C29: in _open_with_retry the wait after failed attempt number attempt is
\* 2^(attempt+1) seconds unless the error text embeds a retry-after value v,
\* and then min(v, 60); no wait taken from a server's value exceeds 60
\* seconds; and no wait follows the final attempt: there is one wait per
\* attempt retried, fewer than max_retries in all.
C29_OpenWaits ==
    /\ [](rfn = "_open_with_retry"
            => /\ Len(sleeps) = attempt
               /\ rmax > 0 => Len(sleeps) < rmax
               /\ rmax = 0 => sleeps = <<>>)
    /\ [][(rfn = "_open_with_retry" /\ sleeps' # sleeps)
            => /\ sleeps' = Append(sleeps, sleeps'[Len(sleeps')])
               /\ attempt + 1 < rmax
               /\ LET w == sleeps'[Len(sleeps')]
                      e == last_error'
                  IN  IF e.ra_form = "digits"
                      THEN /\ w = (IF e.ra_value < 60 THEN e.ra_value ELSE 60)
                           /\ w <= 60
                      ELSE w = 2 ^ (attempt + 1)]_vars

\* An error naming a retry-after value above the cap was waited for, for
\* the cap's length.
C29_Witness ==
    /\ rfn = "_open_with_retry"
    /\ rpc = "loop"
    /\ last_error.ra_form = "digits"
    /\ last_error.ra_value > RetryAfterCap
    /\ Len(sleeps) = 2
    /\ sleeps[2] = RetryAfterCap
    /\ sleeps[1] = 2

----------------------------------------------------------------------------
(* Properties of the in-flight set (SpecWalk) *)

\* The leaves whose transfer attempt has begun and whose finally clause has
\* not run yet.
InFlight == {i \in Nodes : tpc[i] \in {"xfer", "fin", "exc"}}

\* C30: a path added to _active_downloads is removed when its transfer
\* attempt finishes, however download_drive_item ended: the set holds
\* exactly the paths of the attempts in flight, so it is empty whenever
\* none is, and when the top-level process_item_parallel has returned.
C30_ActiveDownloadsAreInFlight ==
    /\ [](/\ active_downloads = {LocalPath(i) : i \in InFlight}
          /\ InFlight = {} => active_downloads = {}
          /\ tpc[1] = "done" => active_downloads = {})
    /\ [][\A i \in Nodes :
            (tpc[i] \in {"fin", "exc"} /\ tpc'[i] = "done")
                => LocalPath(i) \notin active_downloads']_vars

\* The top-level call has returned after a transfer that failed, and the
\* set is empty.
C30_Witness ==
    /\ tpc[1] = "done"
    /\ active_downloads = {}
    /\ \E i \in Nodes :
          /\ IsFile(i)
          /\ Submitted(i)
          /\ \E r \in DOMAIN download_results :
                /\ download_results[r].path = LocalPath(i)
                /\ download_results[r].status = "failed"

----------------------------------------------------------------------------
(* Properties of the walk's progress (SpecWalkFair) *)

\* The node numbers of the trees walked.
NodeIds == UNION {DOMAIN t.parent : t \in Trees}

\* The transfer of leaf i left a failed record.
Failed(i) ==
    \E r \in DOMAIN download_results :
        /\ download_results[r].path = LocalPath(i)
        /\ download_results[r].status = "failed"

\* The leaves whose transfer failed.
FailedChildren == {i \in Nodes : IsFile(i) /\ Failed(i)}

\* C31: a child's failure is isolated: once a child of a directory has
\* failed, every sibling submitted with it still runs to its end, and the
\* directory's own call is not aborted: it comes to its end as well.
C31_SiblingsStillProcessed ==
    (FailedChildren # {})
        ~> (\A i \in FailedChildren, j \in Nodes :
               tree.parent[j] = tree.parent[i]
                   => /\ tpc[j] = "done"
                      /\ tree.parent[i] \in Nodes => tpc[tree.parent[i]] = "done")

\* A leaf's transfer failed, a sibling at another path was transferred, and
\* their directory's call came to its end.
C31_Witness ==
    \E i \in Nodes, j \in Nodes :
        /\ i # j
        /\ tree.parent[i] = tree.parent[j]
        /\ tree.parent[i] \in Nodes
        /\ LocalPath(i) # LocalPath(j)
        /\ IsFile(i) /\ IsFile(j)
        /\ Failed(i) /\ ~Failed(j)
        /\ Submitted(i) /\ Submitted(j)
        /\ tpc[i] = "done" /\ tpc[j] = "done"
        /\ tpc[tree.parent[i]] = "done"

----------------------------------------------------------------------------
(* Properties of the walk's joins (SpecWalk) *)

\* Node j lies in the subtree of directory i.
RECURSIVE IsUnder(_, _)
IsUnder(j, i) ==
    IF tree.parent[j] = 0 THEN FALSE
    ELSE tree.parent[j] = i \/ IsUnder(tree.parent[j], i)

\* C32: a directory's call returns only after every call submitted for its
\* children has finished: once it has returned, no call in its subtree is
\* queued or running; and once the top-level call has returned, no record is
\* appended any more, so the summary report sees every record of the run.
C32_DirectoryDoneAfterSubtree ==
    /\ [](\A i \in Nodes : (~IsFile(i) /\ tpc[i] = "done")
            => \A j \in Nodes : IsUnder(j, i) => tpc[j] \in {"new", "done"})
    /\ [][tpc[1] = "done" => download_results' = download_results]_vars

\* The top-level call returned after a leaf two directories down was
\* transferred and left its record.
C32_Witness ==
    /\ tpc[1] = "done"
    /\ \E j \in Nodes :
          /\ IsFile(j)
          /\ tree.parent[j] \notin {0, 1}
          /\ tpc[j] = "done"
          /\ \E r \in DOMAIN download_results :
                download_results[r].path = LocalPath(j)

----------------------------------------------------------------------------
(* Properties of the walk's error handling (SpecWalk) *)

\* C33: process_item_parallel never propagates an exception to its caller:
\* an error raised while a node is processed (the listing, the resolution
\* of the children, the file system, the engine) is caught at that node,
\* and the node's call returns.
C33_NoCallRaises ==
    \A i \in Nodes : tpc[i] # "raised"

\* The listing of a directory with children raised: its call has returned
\* without submitting any of them, and so has the call above it.
C33_Witness ==
    \E i \in Nodes :
        /\ ~IsFile(i)
        /\ i \notin filtered
        /\ tpc[i] = "done"
        /\ Children(i) # {}
        /\ \A j \in Children(i) : tpc[j] = "new"
        /\ tree.parent[i] \in Nodes
        /\ tpc[tree.parent[i]] = "done"

----------------------------------------------------------------------------
(* Properties of the checkpoint within a transfer (Spec) *)

\* The current call moved its staging file over the local file.
Committed ==
    \E i \in DOMAIN NewResults : NewResults[i].status = "completed"

\* C34: within one transfer the checkpoint is written only in the turn of
\* the fetch loop that wrote a range to the staging file, and then to the
\* byte after that range; the values written never decrease; and once the
\* transfer is Committed the sidecar is gone, so that a new tracker for the
\* path loads 0.
C34_CheckpointLifecycle ==
    /\ [](Committed => (sidecar = NoSidecar /\ load(sidecar) = 0))
    /\ [][(sidecar' # sidecar /\ sidecar' # NoSidecar)
            => /\ pc = "fetch"
               /\ idx <= Len(changed_ranges)
               /\ idx' = idx + 1
               /\ fetches' = fetches + 1
               /\ sidecar' = changed_ranges[idx][2] + 1
               /\ fetched_all' =>
                     RangeOf(temp'.data, changed_ranges[idx][1], changed_ranges[idx][2])
                        = RangeOf(remote, changed_ranges[idx][1], changed_ranges[idx][2])
               /\ sidecar # NoSidecar => sidecar' >= sidecar]_vars

\* A second call, after an earlier one failed, fetched its range and
\* committed: the sidecar is gone.
C34_Witness ==
    /\ Committed
    /\ runs = 2
    /\ fetches > 0
    /\ fetched_all
    /\ sidecar = NoSidecar
    /\ \E i \in 1..results0 : download_results[i].status = "failed"

----------------------------------------------------------------------------
(* Properties of the backup step (Spec) *)

\* C35: with a local file and versioning enabled, record_version is called
\* once per transfer, after the changed ranges were found non-empty and
\* before the staging file is created or a byte fetched: the archive and the
\* ledger change in that one step only, by at most one record; and whether
\* the relocation succeeds, fails or raises, the transfer goes on to create
\* the staging file.
C35_BackupOnceBeforeStaging ==
    /\ [][(pc = "backup" /\ pc' # pc)
            => /\ pc' = "stage"
               /\ changed_ranges # <<>>
               /\ fetches = 0
               /\ temp' = temp
               /\ Len(vm_data'[Key]) <= Len(vm_data[Key]) + 1
               /\ Cardinality(versions_dir') <= Cardinality(versions_dir) + 1
               /\ (Exists(local) /\ version_manager)
                     \/ UNCHANGED <<local, versions_dir, vm_data, meta_doc>>]_vars
    /\ [][pc' = "backup" => (pc = "diff" /\ changed_ranges' # <<>>)]_vars
    /\ [][(versions_dir' # versions_dir \/ vm_data' # vm_data) => pc = "backup"]_vars

\* With versioning enabled the relocation of the local file did not happen,
\* and the transfer fetched its range and committed.
C35_Witness ==
    /\ Committed
    /\ version_manager
    /\ Exists(local0)
    /\ versions_dir = {}
    /\ vm_data = EmptyLedger
    /\ fetched_all
    /\ StSize(local) = total_size

----------------------------------------------------------------------------
(* Properties of the committed file (Spec) *)

\* C36: whenever a transfer ends Committed, every range having been fetched
\* in full, the committed local file's size equals the remote's declared
\* total size, also when the previous local file was larger than the remote
\* file and was not relocated.
C36_CommittedSizeIsRemoteSize ==
    (Committed /\ fetched_all)
        => (Exists(local) /\ StSize(local) = total_size)

----------------------------------------------------------------------------
(* Properties of the local tree after a run (Spec) *)

\* C37: after a run in which no transfer failed, every remote leaf has a
\* local file at its target path, remote files of declared size 0 without a
\* local copy included: a call that returned True leaves a local file.
C37_SuccessLeavesLocalFile ==
    (pc = "returned" /\ ret = "true") => Exists(local)

----------------------------------------------------------------------------
(* Properties of the include patterns over the tree (SpecWalk) *)

\* The call for directory i ended in the handler of line 431 before it
\* submitted a child.
ListingRaised(i) ==
    /\ ~IsFile(i)
    /\ i \notin filtered
    /\ tpc[i] = "done"
    /\ Children(i) # {}
    /\ \A j \in Children(i) : tpc[j] = "new"

\* C38: with include patterns configured, every leaf whose own relative
\* path matches an include pattern and no exclude pattern is submitted for
\* transfer, even when the walk's root or a directory above the leaf matches
\* no include pattern: once the walk has ended with no listing having
\* raised, each such leaf was handed to download_drive_item or turned away
\* as the duplicate of one that was.
C38_IncludedLeavesAreSubmitted ==
    (/\ tpc[1] = "done"
     /\ include_patterns # <<>>
     /\ \A d \in Nodes : ~ListingRaised(d))
        => \A i \in Nodes :
              (/\ IsFile(i)
               /\ MatchesAny(i, include_patterns)
               /\ ~MatchesAny(i, exclude_patterns))
                 => (Submitted(i) \/ i \in skipped)

----------------------------------------------------------------------------
(* Properties of the staging file (Spec) *)

\* C39: when download_drive_item returns, Committed, Unchanged or Failed,
\* the failure of an empty staging file included, no staging file
\* '<target>.temp' is left on disk for the path.
C39_NoStagingFileLeft ==
    pc = "returned" => ~Exists(temp)

----------------------------------------------------------------------------
(* Termination of the walk (SpecWalkFair) *)

\* No call of the walk is queued, running or waiting for its children.
WalkEnded ==
    /\ tpc[1] = "done"
    /\ \A i \in Nodes : tpc[i] \in {"new", "done"}

\* C40: for every tree and every max_workers >= 1, each transfer coming to
\* an end, the walk terminates: the top-level call returns and no directory
\* is left waiting for children that cannot be scheduled, however deep the
\* nesting.
C40_WalkTerminates == <>WalkEnded

\* With one worker per executor, the walk of directories three deep ended
\* with every node's call done.
C40_Witness ==
    /\ tree = TreeChain
    /\ max_workers = 1
    /\ WalkEnded
    /\ \A i \in Nodes : tpc[i] = "done"

=============================================================================
